---- MODULE Spec2Model ----
(***************************************************************************)
(* Model of the investment-teaser pipeline: document ingestion             *)
(* (utils/ingestor.py), structured-data extraction (utils/agent.py), web   *)
(* enrichment (utils/web_search.py), deck generation (utils/generator.py)  *)
(* and the orchestrator (main.py).                                         *)
(*                                                                         *)
(* Python strings whose characters matter are sequences of one-character   *)
(* strings, so that substring search, replacement, stripping, lower-casing *)
(* and length are computed and not assumed.                                *)
(***************************************************************************)
EXTENDS Integers, Sequences, FiniteSets, TLC

VARIABLES
    \* --- analyze_data (utils/agent.py) ---
    agent_pc,       \* "idle" | "ready" | "done"
    llm_outcome,    \* what chain.invoke does: raises, or replies with a text
    agent_result,   \* what analyze_data returned
    \* --- search_certifications (utils/web_search.py) ---
    cert_pc,        \* "idle" | "ready" | "done"
    company_data,   \* the raw text handed to search_certifications
    query_outcome,  \* what the model call of generate_search_queries did
    tavily_env,     \* the provider key and what the provider request did
    cert_result,    \* what search_certifications returned, and its calls
    \* --- run_pipeline (main.py) ---
    pc,             \* position of the run: "idle" | "main" | "start" |
                    \*   "ingested" | "analyzed" | "enriched" | "returned"
    input_dir,      \* the input folder path run_pipeline builds
    folder,         \* the input folder on disk: exists, and its entries
    raw_text,       \* what ingest_company_data returned
    structured_data,\* the record of the run, once analyze_data returned it
    log,            \* the visible messages of the run, in order
    stage_calls,    \* the stage functions called so far, in order
    \* --- the output directory (utils/generator.py) ---
    out_files,      \* suffix -> content of the files of one target path
    out_files0,     \* the files that existed before the first save
    saves,          \* the suffixes written by prs.save so far, in order
    last_gen,       \* the last create_presentation call: what it met, its end
    \* --- ingest_company_data (utils/ingestor.py) ---
    ingest_pc,      \* "idle" | "ready" | "done"
    \* --- get_web_data_for_company (utils/web_search.py) ---
    web_pc,         \* "idle" | "ready" | "done"
    web_in,         \* the raw text, and what the model and the providers do
    web_out,        \* the returned WebData, its three parts and the requests
    \* --- create_presentation with its template (utils/generator.py) ---
    gen_pc,         \* "idle" | "ready" | "done"
    gen_in,         \* the record, the template, TEMP_IMAGE_DIR and the
                    \*   outcomes of downloads, fills and saves
    gen_out,        \* how the call ended, the deck and TEMP_IMAGE_DIR after it
    \* --- calculate_optimal_font_size (utils/generator.py) ---
    font_pc,        \* "idle" | "ready" | "done"
    font_in,        \* text length, placeholder width and height
    font_out,       \* the font size applied
    \* --- the lines of a text in fill_text_placeholder (utils/generator.py) ---
    wrap_pc,        \* "idle" | "ready" | "done"
    wrap_in,        \* the text
    wrap_out,       \* its lines and the paragraphs written
    \* --- generate_search_queries (utils/web_search.py) ---
    qgen_pc,        \* "idle" | "ready" | "done"
    qgen_in,        \* what the model call did, and the category asked for
    qgen_out        \* the list of queries returned

AgentVars == <<agent_pc, llm_outcome, agent_result>>
CertVars  == <<cert_pc, company_data, query_outcome, tavily_env, cert_result>>
PipeVars  == <<pc, input_dir, folder, raw_text, structured_data, log, stage_calls>>
FileVars  == <<out_files, out_files0, saves, last_gen>>

WebVars   == <<web_pc, web_in, web_out>>
GenVars   == <<gen_pc, gen_in, gen_out>>
FontVars  == <<font_pc, font_in, font_out>>
WrapVars  == <<wrap_pc, wrap_in, wrap_out>>
QGenVars  == <<qgen_pc, qgen_in, qgen_out>>

vars == <<AgentVars, CertVars, PipeVars, FileVars, ingest_pc,
          WebVars, GenVars, FontVars, WrapVars, QGenVars>>

----------------------------------------------------------------------------
(* Python str primitives on character sequences                            *)

\* All sequences of length at most n over the set S.
SeqsUpTo(S, n) == UNION {[1..k -> S] : k \in 0..n}

\* "".join(parts)
RECURSIVE Flatten(_)
Flatten(parts) ==
    IF parts = <<>> THEN <<>> ELSE Head(parts) \o Flatten(Tail(parts))

\* s[i:i+len(pat)] == pat   (i is 1-based)
MatchAt(s, pat, i) ==
    /\ i + Len(pat) - 1 <= Len(s)
    /\ \A k \in 1..Len(pat) : s[i + k - 1] = pat[k]

\* pat in s
Contains(s, pat) == \E i \in 1..(Len(s) - Len(pat) + 1) : MatchAt(s, pat, i)

Min(S) == CHOOSE x \in S : \A y \in S : x <= y
Max(S) == CHOOSE x \in S : \A y \in S : x >= y

\* s.replace(pat, ""): the leftmost non-overlapping occurrences are removed
RECURSIVE RemoveFrom(_, _, _)
RemoveFrom(s, pat, i) ==
    LET at == {j \in i..(Len(s) - Len(pat) + 1) : MatchAt(s, pat, j)} IN
    IF at = {} THEN SubSeq(s, i, Len(s))
    ELSE SubSeq(s, i, Min(at) - 1) \o RemoveFrom(s, pat, Min(at) + Len(pat))

RemoveAll(s, pat) == RemoveFrom(s, pat, 1)

\* the whitespace str.strip() removes, as far as the texts of the model have it
Whitespace == {" ", "\n", "\t"}

\* s.strip()
Strip(s) ==
    LET keep == {i \in 1..Len(s) : s[i] \notin Whitespace} IN
    IF keep = {} THEN <<>> ELSE SubSeq(s, Min(keep), Max(keep))

----------------------------------------------------------------------------
(* JSON values as json.loads builds them                                   *)

JStr(s)  == [t |-> "str",  v |-> s]
JList(l) == [t |-> "list", v |-> l]
JObj(m)  == [t |-> "dict", v |-> m]

EmptyMap == [k \in {} |-> JStr(<<>>)]

\* Python values analyze_data can return
PyNone      == [kind |-> "None"]
PyDict(m)   == [kind |-> "dict", data |-> m]

----------------------------------------------------------------------------
(* utils/agent.py                                                          *)

\* The grave accent U+0060, the character of a Markdown code fence. The TLA+
\* lexer pairs a grave accent with a later prime, so the character is named.
BT == "U+0060"

Fence     == <<BT, BT, BT>>
FenceJson == <<BT, BT, BT, "j", "s", "o", "n">>

\* clean_json_string(json_string)
clean_json_string(json_string) ==
    IF Contains(json_string, Fence)
    THEN Strip(RemoveAll(RemoveAll(json_string, FenceJson), Fence))
    ELSE Strip(json_string)

\* The JSON texts the replies of the language model are drawn from.
ObjOpen  == <<"{","\"","c","o","m","p","a","n","y","_","c","o","d","e","n","a","m","e","\"",":","\"">>
ObjClose == <<"\"","}">>
EmptyObjText == <<"{","}">>
EmptyArrText == <<"[","]">>

\* characters a JSON string may hold unescaped
PlainChar(c) == c \notin {"\"", "\\", "\n", "\t"}

JsonError   == [ok |-> FALSE, value |-> JList(<<>>)]
JsonOk(val) == [ok |-> TRUE, value |-> val]

\* index of the first non-whitespace character of s at or after i
RECURSIVE SkipWs(_, _)
SkipWs(s, i) ==
    IF i <= Len(s) /\ s[i] \in Whitespace THEN SkipWs(s, i + 1) ELSE i

\* index of the quote closing a JSON string whose first character is s[i];
\* 0 when the string is unterminated or holds a control character or escape
RECURSIVE CloseQuote(_, _)
CloseQuote(s, i) ==
    IF i > Len(s) THEN 0
    ELSE IF s[i] = "\"" THEN i
    ELSE IF PlainChar(s[i]) THEN CloseQuote(s, i + 1)
    ELSE 0

\* the members of a JSON array of strings, from s[i] on
RECURSIVE ParseItems(_, _)
ParseItems(s, i) ==
    LET j == SkipWs(s, i) IN
    IF j > Len(s) \/ s[j] # "\"" THEN [ok |-> FALSE, items |-> <<>>]
    ELSE LET q == CloseQuote(s, j + 1) IN
         IF q = 0 THEN [ok |-> FALSE, items |-> <<>>]
         ELSE LET item == JStr(SubSeq(s, j + 1, q - 1))
                  k    == SkipWs(s, q + 1)
              IN  IF k > Len(s) THEN [ok |-> TRUE, items |-> <<item>>]
                  ELSE IF s[k] # "," THEN [ok |-> FALSE, items |-> <<>>]
                  ELSE LET rest == ParseItems(s, k + 1) IN
                       IF rest.ok
                       THEN [ok |-> TRUE, items |-> <<item>> \o rest.items]
                       ELSE [ok |-> FALSE, items |-> <<>>]

\* json.loads(text) on the texts the model's replies are drawn from: it
\* decodes the object with the one member company_codename, the empty
\* object and an array of strings, and raises JSONDecodeError (ok = FALSE)
\* for everything else, including extra data after the value and an
\* unterminated or empty document.
json_loads(text) ==
    IF text = EmptyObjText THEN JsonOk(JObj(EmptyMap))
    ELSE IF /\ Len(text) >= Len(ObjOpen) + Len(ObjClose)
            /\ MatchAt(text, ObjOpen, 1)
            /\ MatchAt(text, ObjClose, Len(text) - Len(ObjClose) + 1)
            /\ \A i \in (Len(ObjOpen) + 1)..(Len(text) - Len(ObjClose)) :
                   PlainChar(text[i])
         THEN JsonOk(JObj([company_codename |->
                  JStr(SubSeq(text, Len(ObjOpen) + 1, Len(text) - Len(ObjClose)))]))
    ELSE IF Len(text) >= 2 /\ text[1] = "[" /\ text[Len(text)] = "]"
         THEN LET inner == SubSeq(text, 2, Len(text) - 1) IN
              IF SkipWs(inner, 1) > Len(inner) THEN JsonOk(JList(<<>>))
              ELSE LET r == ParseItems(inner, 1) IN
                   IF r.ok THEN JsonOk(JList(r.items)) ELSE JsonError
    ELSE JsonError

S_Unknown      == <<"U","n","k","n","o","w","n">>
S_ProjectError == <<"P","r","o","j","e","c","t"," ","E","r","r","o","r">>
S_Error        == <<"E","r","r","o","r">>
S_AICouldNot   == <<"A","I"," ","c","o","u","l","d"," ","n","o","t"," ","p","r","o","c","e","s","s"," ","d","a","t","a",".">>
S_NA           == <<"N","/","A">>

\* the record returned by the except json.JSONDecodeError branch
PlaceholderRecord ==
    [company_name          |-> JStr(S_Unknown),
     company_codename      |-> JStr(S_ProjectError),
     sector                |-> JStr(S_Error),
     business_overview     |-> JList(<<JStr(S_AICouldNot)>>),
     product_portfolio     |-> JList(<<>>),
     applications          |-> JList(<<>>),
     financials            |-> JObj(EmptyMap),
     assumptions           |-> JStr(S_NA),
     metrics_point         |-> JStr(S_NA),
     upcoming_facility     |-> JStr(S_NA),
     sales                 |-> JStr(S_NA),
     global_presence       |-> JStr(S_NA),
     investment_highlights |-> JList(<<>>)]

\* What chain.invoke does. A raise carries the class of the exception:
\* json.JSONDecodeError (or a subclass) or any other Exception.
ErrorClasses == {"JSONDecodeError", "OtherException"}

Raises(e)            == [kind |-> "raise", error |-> e, pre |-> <<>>, body |-> <<>>, suf |-> <<>>]
Replies(pre, b, suf) == [kind |-> "reply", error |-> "", pre |-> pre, body |-> b, suf |-> suf]
NoOutcome            == [kind |-> "none", error |-> "", pre |-> <<>>, body |-> <<>>, suf |-> <<>>]

\* generate_search_queries builds its model client (web_search.py lines
\* 48-52) and its prompt (lines 74-77) before its try block: the call in
\* which one of the two raises, so that the model is never called
ClientRaises ==
    [kind |-> "construct", error |-> "OtherException", pre |-> <<>>, body |-> <<>>,
     suf |-> <<>>]

\* response.content
Content(o) == o.pre \o o.body \o o.suf

\* mutant: the two failure modes unified, a reply that does not decode
\* returns None like a failed call
analyze_data_Unified(o) ==
    IF o.kind = "raise" THEN PyNone
    ELSE LET parsed == json_loads(clean_json_string(Content(o)))
         IN  IF ~parsed.ok THEN PyNone
             ELSE IF parsed.value.t # "dict" THEN PyNone
             ELSE PyDict(parsed.value.v)

\* analyze_data(raw_text), lines 93-124: the try block and its two handlers.
\* data.get on a decoded value that is no dict raises AttributeError, which
\* the except Exception handler turns into None.
analyze_data(o) ==
    IF o.kind = "raise"
    THEN IF o.error = "JSONDecodeError" THEN PyDict(PlaceholderRecord) ELSE PyNone
    ELSE LET parsed == json_loads(clean_json_string(Content(o)))
         IN  IF ~parsed.ok THEN PyDict(PlaceholderRecord)
             ELSE IF parsed.value.t # "dict" THEN PyNone
             ELSE PyDict(parsed.value.v)

----------------------------------------------------------------------------
(* utils/web_search.py                                                     *)

\* the letters str.lower() changes, as far as the texts of the model have them
LowerOf ==
    [c \in {"A","B","C","D","E","F","G","H","I","J","K","L","M",
             "N","O","P","Q","R","S","T","U","V","W","X","Y","Z"} |->
        CASE c = "A" -> "a" [] c = "B" -> "b" [] c = "C" -> "c" [] c = "D" -> "d"
          [] c = "E" -> "e" [] c = "F" -> "f" [] c = "G" -> "g" [] c = "H" -> "h"
          [] c = "I" -> "i" [] c = "J" -> "j" [] c = "K" -> "k" [] c = "L" -> "l"
          [] c = "M" -> "m" [] c = "N" -> "n" [] c = "O" -> "o" [] c = "P" -> "p"
          [] c = "Q" -> "q" [] c = "R" -> "r" [] c = "S" -> "s" [] c = "T" -> "t"
          [] c = "U" -> "u" [] c = "V" -> "v" [] c = "W" -> "w" [] c = "X" -> "x"
          [] c = "Y" -> "y" [] c = "Z" -> "z"]

LowerChar(c) == IF c \in DOMAIN LowerOf THEN LowerOf[c] ELSE c

\* s.lower()
Lower(s) == [i \in 1..Len(s) |-> LowerChar(s[i])]

\* s[:n]
Take(s, n) == SubSeq(s, 1, IF Len(s) < n THEN Len(s) ELSE n)

MaxQueries == 5

\* generate_fallback_queries(search_type)
generate_fallback_queries(search_type) ==
    CASE search_type = "images" ->
           <<<<"g","e","n","e","r","i","c"," ","m","a","n","u","f","a","c","t","u","r","i","n","g"," ","p","r","o","d","u","c","t","s"," ","s","t","o","c","k"," ","p","h","o","t","o">>,
             <<"i","n","d","u","s","t","r","i","a","l"," ","f","a","c","i","l","i","t","y"," ","i","n","t","e","r","i","o","r">>>>
      [] search_type = "certifications" ->
           <<<<"I","S","O"," ","9","0","0","1"," ","c","e","r","t","i","f","i","c","a","t","i","o","n">>,
             <<"i","n","d","u","s","t","r","y"," ","c","e","r","t","i","f","i","c","a","t","i","o","n","s">>>>
      [] search_type = "business_info" ->
           <<<<"i","n","d","u","s","t","r","y"," ","m","a","r","k","e","t"," ","t","r","e","n","d","s">>,
             <<"s","e","c","t","o","r"," ","g","r","o","w","t","h"," ","a","n","a","l","y","s","i","s">>>>
      [] search_type = "partners" ->
           <<<<"b","u","s","i","n","e","s","s"," ","p","a","r","t","n","e","r","s","h","i","p","s">>,
             <<"i","n","d","u","s","t","r","y"," ","c","o","l","l","a","b","o","r","a","t","i","o","n","s">>>>
      [] OTHER ->
           <<<<"g","e","n","e","r","a","l"," ","s","e","a","r","c","h">>>>

\* lines 79-103, for what the model call o did: the list of query strings.
\* Every exception raised inside the try block, the JSONDecodeError of
\* json.loads included, is caught by the one except Exception handler.
QueriesOrFallback(o, search_type) ==
    LET queries_of(parsed) ==
            IF ~parsed.ok THEN generate_fallback_queries(search_type)
            ELSE IF parsed.value.t = "list" /\ Len(parsed.value.v) > 0
                 THEN [i \in 1..Len(Take(parsed.value.v, MaxQueries)) |->
                           parsed.value.v[i].v]
                 ELSE generate_fallback_queries(search_type)
    IN  IF o.kind = "raise" THEN generate_fallback_queries(search_type)
        ELSE queries_of(json_loads(clean_json_string(Content(o))))

\* mutant: the whole parsed array is returned
generate_search_queries_NoLimit(o, search_type) ==
    IF o.kind = "construct" THEN [raised |-> TRUE, queries |-> <<>>]
    ELSE [raised |-> FALSE,
          queries |->
             IF o.kind = "raise" THEN generate_fallback_queries(search_type)
             ELSE LET parsed == json_loads(clean_json_string(Content(o))) IN
                  IF ~parsed.ok THEN generate_fallback_queries(search_type)
                  ELSE IF parsed.value.t = "list" /\ Len(parsed.value.v) > 0
                       THEN [i \in 1..Len(parsed.value.v) |-> parsed.value.v[i].v]
                       ELSE generate_fallback_queries(search_type)]

\* generate_search_queries(company_name, company_data, search_type), lines
\* 34-103, for what the call o did: whether it raised, and the list of query
\* strings it returned. The client and the prompt are built outside the try
\* block (lines 48-52, 74-77), so an exception of theirs leaves the function;
\* nothing that follows line 79 does.
generate_search_queries(o, search_type) ==
    IF o.kind = "construct" THEN [raised |-> TRUE, queries |-> <<>>]
    ELSE [raised |-> FALSE, queries |-> QueriesOrFallback(o, search_type)]

\* What the provider does for search_text_tavily: the key is set or not,
\* and the request raises or answers with result items.
TavilyEnv(key, http, items) == [key |-> key, http |-> http, items |-> items]
NoTavily == TavilyEnv(FALSE, "none", <<>>)

\* the value None of a result whose 'content' is the JSON null: item.get
\* returns it as it is (line 150); no string equals it, a string holding one
\* character per element
NoneBody == <<"None">>

\* search_text_tavily(query, max_results): the list of results
search_text_tavily(env) ==
    IF ~env.key THEN <<>>
    ELSE IF env.http # "ok" THEN <<>>
    ELSE [i \in 1..Len(env.items) |->
              [title |-> env.items[i].title,
               body  |-> env.items[i].content,
               href  |-> env.items[i].url]]

common_certs ==
    <<<<"I","S","O"," ","9","0","0","1">>,
      <<"I","S","O"," ","1","4","0","0","1">>,
      <<"I","S","O"," ","2","2","0","0","0">>,
      <<"I","S","O"," ","1","3","4","8","5">>,
      <<"I","S","O"," ","4","5","0","0","1">>,
      <<"G","M","P">>,
      <<"W","H","O","-","G","M","P">>,
      <<"U","S","F","D","A">>,
      <<"C","E"," ","M","a","r","k">>,
      <<"F","S","S","A","I">>,
      <<"B","I","S">>,
      <<"B","R","C">>,
      <<"F","S","S","C"," ","2","2","0","0","0">>,
      <<"H","A","C","C","P">>,
      <<"O","H","S","A","S"," ","1","8","0","0","1">>,
      <<"I","A","T","F"," ","1","6","9","4","9">>,
      <<"T","S"," ","1","6","9","4","9">>,
      <<"U","S","D","A"," ","O","r","g","a","n","i","c">>,
      <<"N","o","n","-","G","M","O">>,
      <<"R","o","H","S">>,
      <<"F","C","C">>,
      <<"A","E","O">>,
      <<"G","D","P">>,
      <<"C","-","T","P","A","T">>>>

S_CertStandard  == <<" ","c","e","r","t","i","f","i","c","a","t","i","o","n"," ","s","t","a","n","d","a","r","d">>
S_CertMentioned == <<"C","e","r","t","i","f","i","c","a","t","i","o","n"," ","m","e","n","t","i","o","n","e","d"," ","i","n"," ","p","r","o","v","i","d","e","d"," ","c","o","m","p","a","n","y"," ","d","a","t","a">>
S_InfoAbout     == <<"I","n","f","o","r","m","a","t","i","o","n"," ","a","b","o","u","t"," ">>
S_Certification == <<" ","c","e","r","t","i","f","i","c","a","t","i","o","n">>

DescriptionLen == 200

\* cert.lower() for each code of the catalog
common_certs_lower == [i \in 1..Len(common_certs) |-> Lower(common_certs[i])]

\* cert.lower() in text_lower (lines 286, 319), cert = common_certs[i]
CertIn(i, text_lower) == Contains(text_lower, common_certs_lower[i])

\* the catalog codes that occur in the lower-cased text, in catalog order
ScanCatalog(text_lower) ==
    LET hits == SelectSeq([i \in 1..Len(common_certs) |-> i],
                          LAMBDA i : CertIn(i, text_lower))
    IN  [k \in 1..Len(hits) |-> common_certs[hits[k]]]

\* found_certs after the loop of lines 285-299 over the company data
LocalCerts(data) == ScanCatalog(Lower(data))

LocalCertification(cert) ==
    [name |-> cert, description |-> cert \o S_CertStandard,
     verified |-> TRUE, source |-> "company_data"]

LocalCitation(cert) ==
    [type |-> "certification", name |-> cert, source |-> "company_data",
     description |-> S_CertMentioned]

\* mutant: a code is taken again although it was found before
FirstNewCert_Again(body_lower, found) ==
    LET hits == ScanCatalog(body_lower)
    IN  IF hits = <<>> THEN <<>> ELSE <<hits[1]>>

\* lines 318-333: the first catalog code in the body of one result that was
\* not found before (the inner loop breaks at it); <<>> when there is none
FirstNewCert(body_lower, found) ==
    LET hits == SelectSeq(ScanCatalog(body_lower),
                    LAMBDA cert : \A k \in 1..Len(found) : found[k] # cert)
    IN  IF hits = <<>> THEN <<>> ELSE <<hits[1]>>

\* lines 315-333: the loop over the results, from result i on
RECURSIVE WebCerts(_, _, _)
WebCerts(results, i, found) ==
    IF i > Len(results) THEN [certifications |-> <<>>, citations |-> <<>>]
    \* line 316: .lower() of None raises, the except of line 335 ends the loop
    ELSE IF results[i].body = NoneBody
    THEN [certifications |-> <<>>, citations |-> <<>>]
    ELSE LET hit == FirstNewCert(Lower(results[i].body), found) IN
         IF hit = <<>> THEN WebCerts(results, i + 1, found)
         ELSE LET rest == WebCerts(results, i + 1, Append(found, hit[1])) IN
              [certifications |->
                   <<[name |-> hit[1],
                      description |-> Take(results[i].body, DescriptionLen),
                      verified |-> FALSE,
                      source |-> results[i].href]>> \o rest.certifications,
               citations |->
                   <<[type |-> "certification", name |-> hit[1],
                      source |-> results[i].href,
                      description |-> S_InfoAbout \o hit[1] \o S_Certification]>>
                   \o rest.citations]

\* mutant: the web search is made when few codes were found
NeedsWebSearch_FewFound(found_certs) == Len(found_certs) <= 1

\* the web search is made only when the company data names no code (line 303)
NeedsWebSearch(found_certs) == Len(found_certs) = 0

\* lines 301-339 of search_certifications, given found_certs, for what the
\* call of the query helper (o) and the provider (env) do when called:
\* whether the function raised, the two returned lists, the search types the
\* query helper was called with and the queries search_text_tavily was
\* called with. The helper is called at line 304, before the try of line
\* 306: when it raises, the function raises and returns nothing.
SearchAfterScan(found, o, env) ==
    LET local_certs == [i \in 1..Len(found) |-> LocalCertification(found[i])]
        local_cites == [i \in 1..Len(found) |-> LocalCitation(found[i])]
        web_search(helper) ==
            IF helper.raised
            THEN [raised         |-> TRUE,
                  certifications |-> <<>>,
                  citations      |-> <<>>,
                  query_calls    |-> <<"certifications">>,
                  tavily_calls   |-> <<>>]
            ELSE IF helper.queries # <<>>
            THEN LET web == WebCerts(search_text_tavily(env), 1, found) IN
                 [raised         |-> FALSE,
                  certifications |-> local_certs \o web.certifications,
                  citations      |-> local_cites \o web.citations,
                  query_calls    |-> <<"certifications">>,
                  tavily_calls   |-> <<helper.queries[1]>>]
            ELSE [raised         |-> FALSE,
                  certifications |-> local_certs,
                  citations      |-> local_cites,
                  query_calls    |-> <<"certifications">>,
                  tavily_calls   |-> <<>>]
    IN  IF NeedsWebSearch(found)
        THEN web_search(generate_search_queries(o, "certifications"))
        ELSE [raised         |-> FALSE,
              certifications |-> local_certs,
              citations      |-> local_cites,
              query_calls    |-> <<>>,
              tavily_calls   |-> <<>>]

\* --- search_images, search_business_info, get_web_data_for_company ---

S_StockPhoto == <<"S","t","o","c","k"," ","p","h","o","t","o"," ","f","r","o","m"," ","U","n","s","p","l","a","s","h",":"," ">>

\* line 491: max_results of the image search; line 182: queries used
ImageMaxResults == 3
ImageQueries == 2
\* lines 378, 402: snippet length
SnippetLen == 300

\* lines 212-243: the photos of one response that are appended before the
\* request fails or a photo without the expected keys raises
PhotosUsed(resp) ==
    IF resp.http # "ok" THEN <<>>
    ELSE LET bad == {k \in 1..Len(resp.photos) : ~resp.photos[k].ok} IN
         IF bad = {} THEN resp.photos
         ELSE SubSeq(resp.photos, 1, Min(bad) - 1)

\* line 225: photo.get('description') or photo.get('alt_description') or
\* 'Stock Photo'. A field is a string, None or absent; only a string that
\* is not empty is taken
PhotoTitle(photo) ==
    IF photo.description.kind = "str" /\ photo.description.v # ""
    THEN photo.description.v
    ELSE IF photo.alt_description.kind = "str" /\ photo.alt_description.v # ""
    THEN photo.alt_description.v
    ELSE "Stock Photo"

\* search_images(company_name, company_data, max_results), for what the
\* call of the query helper did (o) and what each photo request answers
\* (unsplash). The helper is called at line 181, outside every try: when it
\* raises, the function raises before any request.
search_images(o, unsplash, max_results) ==
    LET images_of(helper) ==
            LET queries == Take(helper.queries, ImageQueries)
                all == Flatten([i \in 1..Len(queries) |->
                          LET ph == PhotosUsed(unsplash[i]) IN
                          [k \in 1..Len(ph) |-> [photo |-> ph[k], query |-> queries[i]]]])
                results == [k \in 1..Len(all) |->
                              [url |-> all[k].photo.url,
                               download_url |-> all[k].photo.full,
                               title |-> PhotoTitle(all[k].photo),
                               source |-> all[k].photo.html,
                               type |-> "generic"]]
            IN  [raised    |-> helper.raised,
                 images    |-> Take(results, max_results * 2),
                 citations |-> [k \in 1..Len(all) |->
                                  [type |-> "image", url |-> all[k].photo.url,
                                   source |-> all[k].photo.html,
                                   description |-> S_StockPhoto \o all[k].query]],
                 requests  |-> queries]
    IN  images_of(generate_search_queries(o, "images"))

\* lines 375-385 and 399-409: slicing the body None raises (lines 378, 402);
\* the results handled before it
Handled(results) ==
    LET bad == {i \in 1..Len(results) : results[i].body = NoneBody} IN
    IF bad = {} THEN results ELSE SubSeq(results, 1, Min(bad) - 1)

HandlingRaises(results) == Handled(results) # results

\* lines 375-385 and 399-409: the entries and citations of one result list
BusinessEntries(results) ==
    [i \in 1..Len(Handled(results)) |->
        [title |-> results[i].title,
         snippet |-> Take(results[i].body, SnippetLen),
         url |-> results[i].href]]

BusinessCitations(results, type) ==
    [i \in 1..Len(Handled(results)) |->
        [type |-> type, url |-> results[i].href, description |-> results[i].title]]

\* search_business_info(company_name, company_data), for what the two calls
\* of the query helper did and what the provider does on the market and
\* partner searches. Both helper calls (lines 363-364) come before the try
\* of line 366: when the first raises the second is not made, and when
\* either raises the function raises before any search.
search_business_info(o_business, o_partners, env_market, env_partners) ==
    LET searches(business_helper, partner_helper) ==
            LET raised == business_helper.raised \/ partner_helper.raised
                business_queries == business_helper.queries
                partner_queries  == partner_helper.queries
                market_searched == ~raised /\ business_queries # <<>>
                market == IF market_searched THEN search_text_tavily(env_market)
                          ELSE <<>>
                \* line 411: an exception of the market part ends the function
                partner_reached == ~raised /\ ~HandlingRaises(market)
                partner_searched == partner_reached /\ partner_queries # <<>>
                partner == IF partner_searched THEN search_text_tavily(env_partners)
                           ELSE <<>>
            IN  [raised      |-> raised,
                 called      |-> TRUE,
                 query_calls |-> IF business_helper.raised THEN <<"business_info">>
                                 ELSE <<"business_info", "partners">>,
                 market_info |-> BusinessEntries(market),
                 partners    |-> BusinessEntries(partner),
                 trends      |-> <<>>,
                 citations   |-> BusinessCitations(market, "market_info")
                                 \o BusinessCitations(partner, "partner"),
                 tavily_calls |->
                     (IF market_searched THEN <<env_market>> ELSE <<>>)
                     \o (IF partner_searched THEN <<env_partners>> ELSE <<>>),
                 tavily_queries |->
                     (IF market_searched
                      THEN <<[type |-> "business_info", query |-> business_queries[1]]>>
                      ELSE <<>>)
                     \o (IF partner_searched
                         THEN <<[type |-> "partners", query |-> partner_queries[1]]>>
                         ELSE <<>>)]
    IN  searches(generate_search_queries(o_business, "business_info"),
                 generate_search_queries(o_partners, "partners"))

\* lines 128-145: the HTTP requests one call of search_text_tavily issues
tavily_posts(env) == IF ~env.key THEN 0 ELSE 1

\* mutant: the certification citations come before the image citations
get_web_data_for_company_CertsFirst(img, certs, business_info) ==
    [images |-> img.images, certifications |-> certs.certifications,
     business_info |-> business_info,
     citations |-> certs.citations \o img.citations \o business_info.citations]

\* get_web_data_for_company, lines 482-520, from the results of its three
\* searches
get_web_data_for_company(img, certs, business_info) ==
    [images |-> img.images, certifications |-> certs.certifications,
     business_info |-> business_info,
     citations |-> img.citations \o certs.citations \o business_info.citations]

----------------------------------------------------------------------------
(* utils/ingestor.py                                                       *)

StartsWith(s, p) == MatchAt(s, p, 1)
EndsWith(s, p)   == Len(s) >= Len(p) /\ MatchAt(s, p, Len(s) - Len(p) + 1)

S_FolderNotFound == <<"E","r","r","o","r",":"," ","F","o","l","d","e","r"," ","n","o","t"," ","f","o","u","n","d"," ","a","t"," ">>
S_NoFiles == <<"W","a","r","n","i","n","g",":"," ","N","o"," ","f","i","l","e","s"," ","f","o","u","n","d"," ","i","n"," ","t","h","i","s"," ","f","o","l","d","e","r",".">>
S_FileHdr == <<"\n","\n","-","-","-"," ","F","I","L","E",":"," ">>
S_HdrEnd  == <<" ","-","-","-","\n">>
S_PdfEnd  == <<" ","(","P","D","F"," ","C","o","n","t","e","n","t",")"," ","-","-","-","\n">>
S_Sheet   == <<" ","|"," ","S","H","E","E","T",":"," ">>

Ext_txt  == <<".","t","x","t">>
Ext_md   == <<".","m","d">>
Ext_pdf  == <<".","p","d","f">>
Ext_xlsx == <<".","x","l","s","x">>
Ext_xls  == <<".","x","l","s">>

\* A directory entry: its name; its parts (the one content of a text file,
\* the page texts of a PDF, the sheets of a workbook, each with a label and
\* a text); and fail_at, 0 when every read succeeds, k when reading raises
\* at part k (opening the file raises: k = 1).
Entry(name, parts, fail_at) == [name |-> name, parts |-> parts, fail_at |-> fail_at]
Part(label, text) == [label |-> label, text |-> text]

\* lines 30-34: a text or Markdown file
TextSection(e) ==
    IF e.fail_at # 0 THEN <<>>
    ELSE S_FileHdr \o e.name \o S_HdrEnd \o e.parts[1].text

\* lines 37-45: a PDF; the text is appended after every page was extracted,
\* and a page without text is skipped
PdfSection(e) ==
    IF e.fail_at # 0 THEN <<>>
    ELSE S_FileHdr \o e.name \o S_PdfEnd
         \o Flatten([i \in 1..Len(e.parts) |->
                IF e.parts[i].text = <<>> THEN <<>>
                ELSE e.parts[i].text \o <<"\n">>])

\* lines 48-55: a workbook; each sheet is appended as soon as it is read, so
\* the sheets before a failing one stay in the corpus
ExcelSection(e) ==
    LET n == IF e.fail_at = 0 THEN Len(e.parts) ELSE e.fail_at - 1 IN
    Flatten([i \in 1..n |->
        S_FileHdr \o e.name \o S_Sheet \o e.parts[i].label \o S_HdrEnd
        \o e.parts[i].text])

\* lines 21-58: what one directory entry adds to combined_text
FileSection(e) ==
    IF StartsWith(e.name, <<".">>) THEN <<>>
    ELSE IF EndsWith(Lower(e.name), Ext_txt) \/ EndsWith(Lower(e.name), Ext_md)
         THEN TextSection(e)
    ELSE IF EndsWith(Lower(e.name), Ext_pdf) THEN PdfSection(e)
    ELSE IF EndsWith(Lower(e.name), Ext_xlsx) \/ EndsWith(Lower(e.name), Ext_xls)
         THEN ExcelSection(e)
    ELSE <<>>

\* the input folder: it exists or not, and os.listdir of it
Folder(exists, files) == [exists |-> exists, files |-> files]

\* ingest_company_data(folder_path)
ingest_company_data(folder_path, dir) ==
    IF ~dir.exists THEN S_FolderNotFound \o folder_path
    ELSE IF dir.files = <<>> THEN S_NoFiles
    ELSE Flatten([i \in 1..Len(dir.files) |-> FileSection(dir.files[i])])

----------------------------------------------------------------------------
(* utils/generator.py: the output path and the save                       *)

\* The files of one target path are named by their suffix: 0 is the target
\* path itself, k the name with _k before the extension.
MaxAttempts == 1000

PathFound(k) == [ok |-> TRUE, suffix |-> k]
PathError    == [ok |-> FALSE, suffix |-> 0]

\* mutant: the target path is returned although it exists
get_unique_output_path_Overwrite(files) == PathFound(0)

\* mutant: the search stops one suffix short of the cap
get_unique_output_path_ShortCap(files) ==
    IF 0 \notin DOMAIN files THEN PathFound(0)
    ELSE LET free == {k \in 1..(MaxAttempts - 1) : k \notin DOMAIN files} IN
         IF free = {} THEN PathError ELSE PathFound(Min(free))

\* get_unique_output_path(output_path), files: the existing files
get_unique_output_path(files) ==
    IF 0 \notin DOMAIN files THEN PathFound(0)
    ELSE LET free == {k \in 1..MaxAttempts : k \notin DOMAIN files} IN
         IF free = {} THEN PathError ELSE PathFound(Min(free))

\* prs.save(path): the file at path is written with the new deck
Written(files, k, deck) ==
    [q \in DOMAIN files \cup {k} |-> IF q = k THEN deck ELSE files[q]]

\* What the generation meets: the template is missing, fails to load, the
\* fill of the placeholders raises, its save fails, or all succeed; and the
\* save of the programmatic deck fails or succeeds.
GenEnv(template, programmatic) == [template |-> template, programmatic |-> programmatic]

\* tried: the generation paths that were entered, in order
GenResult(raised, files, written, tried) ==
    [raised |-> raised, files |-> files, written |-> written, tried |-> tried]

\* the template path was entered before the outcome r of the fallback
AfterTemplate(r) == [r EXCEPT !.tried = <<"template">> \o @]

\* create_presentation_programmatic, lines 674-678: nothing is caught
create_presentation_programmatic(files, env, deck) ==
    LET path == get_unique_output_path(files) IN
    IF ~path.ok \/ env.programmatic # "ok"
    THEN GenResult(TRUE, files, <<>>, <<"programmatic">>)
    ELSE GenResult(FALSE, Written(files, path.suffix, deck), <<path.suffix>>,
                   <<"programmatic">>)

\* create_presentation(structured_data, output_path), lines 402-421, with
\* create_presentation_from_template: a failed load (436-441) and a failed
\* save or path search (610-626) return False and lead to the programmatic
\* deck; an exception while the placeholders are filled (446-605) is not
\* caught.
create_presentation(files, env, deck) ==
    IF env.template = "missing"
    THEN create_presentation_programmatic(files, env, deck)
    ELSE IF env.template = "load_fails"
    THEN AfterTemplate(create_presentation_programmatic(files, env, deck))
    ELSE IF env.template = "fill_raises"
    THEN GenResult(TRUE, files, <<>>, <<"template">>)
    ELSE LET path == get_unique_output_path(files) IN
         IF path.ok /\ env.template = "ok"
         THEN GenResult(FALSE, Written(files, path.suffix, deck), <<path.suffix>>,
                        <<"template">>)
         ELSE AfterTemplate(create_presentation_programmatic(files, env, deck))

\* --- the template path: placeholders, images, TEMP_IMAGE_DIR ---

\* A loaded deck is a sequence of slides (slide number = slide index + 1);
\* a slide maps the index of each of its placeholders to the placeholder's
\* type and content, and lists the pictures added to it.
BODY    == 2
OBJECT  == 7
PICTURE == 18

Untouched == [kind |-> "template"]
Cleared   == [kind |-> "cleared"]
TextOf(marker) == [kind |-> "text", marker |-> marker]

\* lines 446-469: the markers whose text is empty for a record; the list
\* markers are empty when the record has no such list, the scalar markers
\* default to N/A
EmptyMarkers(record, web_data) ==
    (IF record.lists THEN {}
     ELSE {"Business_Overview", "Project_Portfolio", "Applications",
           "Investment_Highlights"})
    \cup (IF web_data.certifications = <<>> THEN {"Certifications"} ELSE {})

\* line 142, placeholder_idx in slide.placeholders: the collection has no
\* membership test of its own, so Python walks the placeholder shapes and
\* compares each with the integer, and no shape equals an integer
IndexAmongShapes(slide, placeholder_idx) ==
    \E i \in DOMAIN slide.ph : FALSE

\* fill_placeholder_by_index(slide, placeholder_idx, content, content_type),
\* lines 127-169: the slide afterwards and the value returned. content is a
\* string: its text (a marker, "" for the empty string) and whether a file
\* of that name exists; fails: the placeholder raises when its text frame is
\* taken or the picture is inserted, and the except of line 167 returns False.
\* The test of line 142 fails for every index, so line 143 returns False
fill_placeholder_by_index(slide, placeholder_idx, content, content_type, fails) ==
    IF ~IndexAmongShapes(slide, placeholder_idx) THEN [slide |-> slide, ok |-> FALSE]
    \* line 145: no placeholder of that idx raises KeyError
    ELSE IF placeholder_idx \notin DOMAIN slide.ph THEN [slide |-> slide, ok |-> FALSE]
    ELSE IF content_type = "text" /\ slide.ph[placeholder_idx].type \in {BODY, OBJECT}
    THEN IF fails THEN [slide |-> slide, ok |-> FALSE]
         ELSE [slide |-> [slide EXCEPT !.ph[placeholder_idx].content =
                             IF content.text = "" THEN Cleared
                             ELSE TextOf(content.text)],
               ok |-> TRUE]
    ELSE IF content_type = "image" /\ slide.ph[placeholder_idx].type = PICTURE
            /\ content.exists
    THEN IF fails THEN [slide |-> slide, ok |-> FALSE]
         ELSE [slide |-> [slide EXCEPT !.pictures =
                             Append(@, [at |-> placeholder_idx, file |-> content.text])],
               ok |-> TRUE]
    ELSE [slide |-> slide, ok |-> FALSE]

\* fill_text_placeholder(slide, placeholder_idx, text_content), lines
\* 214-318: the slide afterwards; fails: the placeholder raises when its
\* text frame is taken
fill_text_placeholder(slide, placeholder_idx, marker, empty, fails) ==
    IF placeholder_idx \notin DOMAIN slide.ph THEN slide
    ELSE IF slide.ph[placeholder_idx].type \notin {BODY, OBJECT} THEN slide
    ELSE IF fails THEN slide
    ELSE [slide EXCEPT !.ph[placeholder_idx].content =
              IF empty THEN Cleared ELSE TextOf(marker)]

\* lines 509-585: the text slots in the order they are filled:
\* slide number, placeholder index, marker
TextSlots ==
    <<<<2, 10, "Business_Overview">>, <<2, 14, "Project_Portfolio">>,
      <<2, 15, "Applications">>, <<2, 16, "Certifications">>,
      <<3, 11, "Assumptions">>, <<3, 14, "metrics_point">>,
      <<3, 15, "Upcoming_Facility">>, <<4, 10, "Investment_Highlights">>>>

\* mutant: the chart placeholder 10 of slide 3 is filled as well
FillTexts_WithChart(deck, record, web_data, failing) ==
    [s \in 1..Len(deck) |->
        IF s = 3 THEN [deck[s] EXCEPT !.ph =
              [i \in DOMAIN @ |-> [@[i] EXCEPT !.content = TextOf("EBITDA")]]]
        ELSE deck[s]]

\* lines 509-585: all text fills; failing: the slots whose placeholder raises
FillTexts(deck, record, web_data, failing) ==
    LET empty == EmptyMarkers(record, web_data)
        FillSlide(s) ==
            LET mine == SelectSeq(TextSlots, LAMBDA t : t[1] = s)
                F[k \in 0..Len(mine)] ==
                    IF k = 0 THEN deck[s]
                    ELSE fill_text_placeholder(F[k - 1], mine[k][2], mine[k][3],
                             mine[k][3] \in empty,
                             <<mine[k][1], mine[k][2]>> \in failing)
            IN  F[Len(mine)]
    IN  [s \in 1..Len(deck) |-> FillSlide(s)]

\* TEMP_IMAGE_DIR (line 50): None, a directory that exists, or the name of
\* a directory that was removed
TempNone   == "none"
TempExists == "exists"
TempStale  == "stale"

\* download_image_to_temp(image_url, filename), lines 98-121, for what the
\* request and the validation do: TEMP_IMAGE_DIR afterwards and whether a
\* path was returned
download_image_to_temp(temp, outcome) ==
    LET dir == IF temp = TempNone THEN TempExists ELSE temp IN
    [temp |-> dir,
     path |-> dir = TempExists /\ outcome \notin {"http_error", "invalid_image"}]

\* fill_image_placeholder(slide, placeholder_idx, image_path), lines 320-343
fill_image_placeholder(slide, placeholder_idx, file, outcome) ==
    IF placeholder_idx \notin DOMAIN slide.ph THEN slide
    ELSE IF slide.ph[placeholder_idx].type # PICTURE THEN slide
    ELSE IF outcome = "picture_fails" THEN slide
    ELSE [slide EXCEPT !.pictures = Append(@, [at |-> placeholder_idx, file |-> file])]

\* line 380: partner.get('image_url') or partner.get('image') or partner.get('url')
ImageUrlOf(partner) ==
    IF partner.image_url # <<>> THEN partner.image_url
    ELSE IF partner.image # <<>> THEN partner.image
    ELSE partner.url

S_http == <<"h","t","t","p">>

PicturePlaceholders == <<11, 12, 13>>
GeneralImagesUsed == 3

\* lines 353-372: the partner entries the loop works on. partners_data is
\* [kind |-> "list", v |-> entries], [kind |-> "none"], or a dict
\* [kind |-> "dict", has_partners, v, others]: whether it has the key
\* 'partners', the value of that key, and whether it has other keys.
\* Line 353, not partners_data: None, the empty list and the empty dict
NoPartnersData(partners_data) ==
    \/ partners_data.kind = "none"
    \/ partners_data.kind = "list" /\ partners_data.v = <<>>
    \/ partners_data.kind = "dict" /\ ~partners_data.has_partners
                                   /\ ~partners_data.others

FromImage(img) ==
    [image_url |-> IF img.url # <<>> THEN img.url ELSE img.download_url,
     image |-> <<>>, url |-> <<>>]

CustomerPartners(partners_data, images) ==
    IF NoPartnersData(partners_data) THEN <<>>
    ELSE LET partners == IF partners_data.kind = "list" THEN partners_data.v
                         ELSE IF partners_data.has_partners THEN partners_data.v
                         ELSE <<>>
         IN  IF partners # <<>> THEN partners
             ELSE [i \in 1..Len(Take(images, GeneralImagesUsed)) |->
                      FromImage(images[i])]

\* line 382: a download is attempted for the entry
HasHttpUrl(partner) ==
    ImageUrlOf(partner) # <<>> /\ StartsWith(ImageUrlOf(partner), S_http)

\* the positions of the picture placeholders for which a download is attempted
DownloadSlots(partners) ==
    {i \in 1..Len(PicturePlaceholders) : i <= Len(partners) /\ HasHttpUrl(partners[i])}

\* mutant: the loop ends at the first entry whose image cannot be placed
insert_customer_images_by_placeholder_StopAtFailure(slide, partners, temp, outcomes) ==
    LET F[k \in 0..Len(PicturePlaceholders)] ==
            IF k = 0 THEN [slide |-> slide, temp |-> temp, attempts |-> <<>>, on |-> TRUE]
            ELSE LET b == F[k - 1] IN
                 IF ~b.on \/ k \notin DownloadSlots(partners) THEN [b EXCEPT !.on = FALSE]
                 ELSE LET d == download_image_to_temp(b.temp, outcomes[k])
                          s == fill_image_placeholder(b.slide, PicturePlaceholders[k],
                                                      k - 1, outcomes[k])
                      IN  [slide |-> IF d.path THEN s ELSE b.slide,
                           temp |-> d.temp,
                           attempts |-> Append(b.attempts, k),
                           on |-> d.path /\ s # b.slide]
        r == F[Len(PicturePlaceholders)]
    IN  [slide |-> r.slide, temp |-> r.temp, attempts |-> r.attempts]

\* insert_customer_images_by_placeholder, lines 374-393, on the entries the
\* loop works on; outcomes: what the request, the validation and the picture
\* of each position do. The picture file of position k is customer_{k-1}.jpg.
insert_customer_images_by_placeholder(slide, partners, temp, outcomes) ==
    LET F[k \in 0..Len(PicturePlaceholders)] ==
            IF k = 0 THEN [slide |-> slide, temp |-> temp, attempts |-> <<>>]
            ELSE LET b == F[k - 1] IN
                 IF k \notin DownloadSlots(partners) THEN b
                 ELSE LET d == download_image_to_temp(b.temp, outcomes[k]) IN
                      [slide |-> IF d.path
                                 THEN fill_image_placeholder(b.slide,
                                          PicturePlaceholders[k], k - 1, outcomes[k])
                                 ELSE b.slide,
                       temp |-> d.temp,
                       attempts |-> Append(b.attempts, k)]
    IN  F[Len(PicturePlaceholders)]

\* create_presentation_from_template up to the save, lines 430-605: whether
\* the template was loaded, whether the fill raised, the deck in memory,
\* TEMP_IMAGE_DIR and the positions for which a download was attempted.
\* structured_data.get('financials', {}) is None when financials is null,
\* and None has no get (lines 457-460).
FillTemplate(record, web_data, template, temp, failing, outcomes) ==
    IF template.status # "ok"
    THEN [loaded |-> FALSE, raised |-> FALSE, deck |-> <<>>, temp |-> temp,
          attempts |-> <<>>]
    ELSE IF record.financials_null
    THEN [loaded |-> TRUE, raised |-> TRUE, deck |-> template.slides, temp |-> temp,
          attempts |-> <<>>]
    ELSE LET texts == FillTexts(template.slides, record, web_data, failing) IN
         IF Len(texts) < 2
         THEN [loaded |-> TRUE, raised |-> FALSE, deck |-> texts, temp |-> temp,
               attempts |-> <<>>]
         ELSE LET r == insert_customer_images_by_placeholder(texts[2],
                           CustomerPartners(web_data.partners, web_data.images),
                           temp, outcomes)
              IN  [loaded |-> TRUE, raised |-> FALSE,
                   deck |-> [texts EXCEPT ![2] = r.slide],
                   temp |-> r.temp, attempts |-> r.attempts]

\* what create_presentation meets on the template path, in the words of GenEnv
TemplateOutcome(template, filled, save) ==
    IF template.status # "ok" THEN template.status
    ELSE IF filled.raised THEN "fill_raises"
    ELSE save

\* lines 616-621, reached when the template deck was saved: the directory
\* is removed if TEMP_IMAGE_DIR names one that exists; TEMP_IMAGE_DIR keeps
\* its value, and a failed removal is passed over
CleanUp(r, temp, rmtree) ==
    IF ~r.raised /\ r.tried = <<"template">> /\ temp = TempExists
    THEN [called |-> TRUE, temp |-> IF rmtree = "ok" THEN TempStale ELSE TempExists]
    ELSE [called |-> FALSE, temp |-> temp]

\* --- the font size of a text placeholder ---

\* Inches(1) in English Metric Units
EmuPerInch == 914400
FontMin == 8
FontMax == 14
DefaultFontSize == 12

\* Python floats are IEEE 754 doubles: every operation gives the double
\* nearest to the exact result, ties to the even mantissa. A natural number
\* of up to 96 bits is held as four limbs of 24 bits, the lowest first.
Limb == 2^24

BigZero == <<0, 0, 0, 0>>
BigOne  == <<1, 0, 0, 0>>
\* 2^52 and 2^53: a mantissa m has 53 bits, Two52 <= m < Two53
Two52 == <<0, 0, 16, 0>>
Two53 == <<0, 0, 32, 0>>

\* a natural number below 2^31
BigOf(n) == <<n % Limb, n \div Limb, 0, 0>>

\* 2 * a + bit
BigDbl(a, bit) ==
    LET c1 == 2 * a[1] + bit
        c2 == 2 * a[2] + (c1 \div Limb)
        c3 == 2 * a[3] + (c2 \div Limb)
        c4 == 2 * a[4] + (c3 \div Limb)
    IN  <<c1 % Limb, c2 % Limb, c3 % Limb, c4 % Limb>>

\* the whole part of a / 2
BigHalf(a) ==
    <<(a[1] \div 2) + (a[2] % 2) * (Limb \div 2),
      (a[2] \div 2) + (a[3] % 2) * (Limb \div 2),
      (a[3] \div 2) + (a[4] % 2) * (Limb \div 2),
      a[4] \div 2>>

BigGeq(a, b) ==
    IF a[4] # b[4] THEN a[4] > b[4]
    ELSE IF a[3] # b[3] THEN a[3] > b[3]
    ELSE IF a[2] # b[2] THEN a[2] > b[2]
    ELSE a[1] >= b[1]

BigAdd(a, b) ==
    LET c1 == a[1] + b[1]
        c2 == a[2] + b[2] + (c1 \div Limb)
        c3 == a[3] + b[3] + (c2 \div Limb)
        c4 == a[4] + b[4] + (c3 \div Limb)
    IN  <<c1 % Limb, c2 % Limb, c3 % Limb, c4 % Limb>>

\* a - b, for a >= b
BigSub(a, b) ==
    LET d1 == a[1] - b[1]
        d2 == a[2] - b[2] - (IF d1 < 0 THEN 1 ELSE 0)
        d3 == a[3] - b[3] - (IF d2 < 0 THEN 1 ELSE 0)
        d4 == a[4] - b[4] - (IF d3 < 0 THEN 1 ELSE 0)
    IN  <<d1 % Limb, d2 % Limb, d3 % Limb, d4 % Limb>>

\* a * k for a natural number k
RECURSIVE BigMul(_, _)
BigMul(a, k) ==
    IF k = 0 THEN BigZero
    ELSE LET d == BigDbl(BigMul(a, k \div 2), 0) IN
         IF k % 2 = 1 THEN BigAdd(d, a) ELSE d

\* the whole part of a / 2^n, for n < 96
BigShiftRight(a, n) ==
    LET s == [i \in 1..4 |-> IF i + (n \div 24) <= 4 THEN a[i + (n \div 24)] ELSE 0]
        p == 2^(n % 24)
    IN  <<(s[1] \div p) + (s[2] % p) * (Limb \div p),
          (s[2] \div p) + (s[3] % p) * (Limb \div p),
          (s[3] \div p) + (s[4] % p) * (Limb \div p),
          s[4] \div p>>

\* a * 2^n, for a product below 2^96
BigShiftLeft(a, n) ==
    LET s == [i \in 0..4 |-> IF i - (n \div 24) >= 1 THEN a[i - (n \div 24)] ELSE 0]
        p == 2^(n % 24)
    IN  [i \in 1..4 |-> (s[i] % (Limb \div p)) * p + (s[i - 1] \div (Limb \div p))]

\* the number of bits of a > 0
BigBits(a) ==
    LET top == CHOOSE i \in 1..4 : a[i] # 0 /\ \A j \in (i + 1)..4 : a[j] = 0
    IN  24 * (top - 1) + (CHOOSE k \in 1..24 : 2^(k - 1) <= a[top] /\ a[top] < 2^k)

\* A double that is not negative is [m, e], its value m * 2^e, with a
\* mantissa of 53 bits; zero is [BigZero, 0].
FloatZero == [m |-> BigZero, e |-> 0]

\* the mantissa m of 53 bits with what was cut off below it: the first bit
\* cut off (round) and whether anything lower was set (sticky)
RoundEven(m, e, round, sticky) ==
    IF round /\ (sticky \/ m[1] % 2 = 1)
    THEN LET u == BigAdd(m, BigOne) IN
         IF u = Two53 THEN [m |-> Two52, e |-> e + 1] ELSE [m |-> u, e |-> e]
    ELSE [m |-> m, e |-> e]

\* the double nearest to n * 2^e (plus less than 2^e when inexact is set):
\* n is brought to 53 bits, and what is cut off decides the rounding
Nearest(n, e, inexact) ==
    IF n = BigZero THEN FloatZero
    ELSE LET bits == BigBits(n) IN
         IF bits <= 53
         THEN [m |-> BigShiftLeft(n, 53 - bits), e |-> e - (53 - bits)]
         ELSE LET cut == bits - 53
                  from_round == BigShiftRight(n, cut - 1)
              IN  RoundEven(BigHalf(from_round), e + cut, from_round[1] % 2 = 1,
                            inexact \/ BigShiftLeft(from_round, cut - 1) # n)

\* float(n) of a natural number n
FloatOf(n) == Nearest(BigOf(n), 0, FALSE)

FloatOne == FloatOf(1)

\* the literal 0.8: 0x1.999999999999ap-1
Point8 == [m |-> <<10066330, 10066329, 25, 0>>, e |-> -53]

\* x * k and k * x for a natural number k
FloatMulInt(x, k) == Nearest(BigMul(x.m, k), x.e, FALSE)

\* one more binary place of a quotient: s.rem < d
DivStep(s, d) ==
    LET r2 == BigDbl(s.rem, 0) IN
    IF BigGeq(r2, d)
    THEN [q |-> BigDbl(s.q, 1), rem |-> BigSub(r2, d), places |-> s.places + 1]
    ELSE [q |-> BigDbl(s.q, 0), rem |-> r2, places |-> s.places + 1]

\* six more binary places
DivSix(s, d) == DivStep(DivStep(DivStep(DivStep(DivStep(DivStep(s, d), d), d), d), d), d)

\* up to n times six more places; the division stops when it comes out even
RECURSIVE DivPlaces(_, _, _)
DivPlaces(s, d, n) ==
    IF n = 0 \/ s.rem = BigZero THEN s ELSE DivPlaces(DivSix(s, d), d, n - 1)

\* x / y for y > 0: the quotient of the mantissas, x.m < 2 * y.m, to 54
\* binary places
FloatDiv(x, y) ==
    IF x.m = BigZero THEN FloatZero
    ELSE LET whole == BigGeq(x.m, y.m)
             r == DivPlaces([q |-> IF whole THEN BigOne ELSE BigZero,
                             rem |-> IF whole THEN BigSub(x.m, y.m) ELSE x.m,
                             places |-> 0], y.m, 9)
         IN  Nearest(r.q, x.e - y.e - r.places, r.rem # BigZero)

\* x <= y
FloatLeq(x, y) ==
    IF x.m = BigZero THEN TRUE
    ELSE IF y.m = BigZero THEN FALSE
    ELSE IF x.e # y.e THEN x.e < y.e
    ELSE BigGeq(y.m, x.m)

\* int(x), for x below 2^31
FloatTrunc(x) ==
    IF x.e <= -53 THEN 0
    ELSE LET w == BigShiftRight(x.m, -x.e) IN w[1] + w[2] * Limb

\* line 193: int((placeholder_width / Inches(1)) * 12)
chars_per_line(placeholder_width) ==
    FloatTrunc(FloatMulInt(FloatDiv(FloatOf(placeholder_width), FloatOf(EmuPerInch)), 12))

\* line 194: int((placeholder_height / Inches(1)) * 2)
lines_available(placeholder_height) ==
    FloatTrunc(FloatMulInt(FloatDiv(FloatOf(placeholder_height), FloatOf(EmuPerInch)), 2))

\* line 200: max(1, text_length / chars_per_line)
estimated_lines(text_length, cpl) ==
    LET per_line == FloatDiv(FloatOf(text_length), FloatOf(cpl)) IN
    IF FloatLeq(per_line, FloatOne) THEN FloatOne ELSE per_line

\* lines 207-208: int(max_size * ratio)
calculated_size(estimated, usable, max_size) ==
    FloatTrunc(FloatMulInt(FloatDiv(usable, estimated), max_size))

\* mutant: the reduced size is not raised to the minimum
calculate_optimal_font_size_NoFloor(text_length, placeholder_width, placeholder_height, min_size, max_size) ==
    LET cpl == chars_per_line(placeholder_width)
        lines == lines_available(placeholder_height)
    IN  IF cpl = 0 \/ lines = 0 THEN DefaultFontSize
        ELSE LET estimated == estimated_lines(text_length, cpl)
                 usable == FloatMulInt(Point8, lines)
             IN  IF FloatLeq(estimated, usable) THEN max_size
                 ELSE calculated_size(estimated, usable, max_size)

\* calculate_optimal_font_size(text_length, placeholder_width,
\* placeholder_height, min_size, max_size), lines 187-212, in the floating
\* point arithmetic of the code; usable is lines_available * 0.8
calculate_optimal_font_size(text_length, placeholder_width, placeholder_height, min_size, max_size) ==
    LET cpl == chars_per_line(placeholder_width)
        lines == lines_available(placeholder_height)
    IN  IF cpl = 0 \/ lines = 0 THEN DefaultFontSize
        ELSE LET estimated == estimated_lines(text_length, cpl)
                 usable == FloatMulInt(Point8, lines)
             IN  IF FloatLeq(estimated, usable) THEN max_size
                 ELSE Max({min_size,
                           Min({calculated_size(estimated, usable, max_size), max_size})})

\* lines 251-258: the size fill_text_placeholder gives to the text
FontSizeFor(text_length, placeholder_width, placeholder_height) ==
    calculate_optimal_font_size(text_length, placeholder_width, placeholder_height,
                                FontMin, FontMax)

\* --- the lines of a text placeholder ---
WrapThreshold == 200
MaxCharsPerLine == 80

\* the k-th smallest element of a set of numbers
Nth(S, k) == CHOOSE x \in S : Cardinality({y \in S : y < x}) = k - 1

\* s.split(): the maximal runs of characters that are not whitespace
SplitWords(s) ==
    LET starts == {i \in 1..Len(s) :
                      s[i] \notin Whitespace /\ (i = 1 \/ s[i - 1] \in Whitespace)}
        ends == {i \in 1..Len(s) :
                      s[i] \notin Whitespace /\ (i = Len(s) \/ s[i + 1] \in Whitespace)}
    IN  [k \in 1..Cardinality(starts) |-> SubSeq(s, Nth(starts, k), Nth(ends, k))]

\* s.split('\n'): the pieces between the newlines, empty ones included
SplitLines(s) ==
    LET cuts == {0, Len(s) + 1} \cup {i \in 1..Len(s) : s[i] = "\n"} IN
    [k \in 1..(Cardinality(cuts) - 1) |->
        SubSeq(s, Nth(cuts, k) + 1, Nth(cuts, k + 1) - 1)]

\* ' '.join(words)
RECURSIVE JoinSpace(_)
JoinSpace(words) ==
    IF words = <<>> THEN <<>>
    ELSE IF Len(words) = 1 THEN words[1]
    ELSE words[1] \o <<" ">> \o JoinSpace(Tail(words))

\* mutant: a word is added to the line as long as the line is not full
WrapWords_LateBreak(words) ==
    LET F[k \in 0..Len(words)] ==
            IF k = 0 THEN [lines |-> <<>>, current_line |-> <<>>, current_length |-> 0]
            ELSE LET b == F[k - 1] IN
                 IF b.current_length > MaxCharsPerLine /\ b.current_line # <<>>
                 THEN [lines |-> Append(b.lines, JoinSpace(b.current_line)),
                       current_line |-> <<words[k]>>,
                       current_length |-> Len(words[k])]
                 ELSE [lines |-> b.lines,
                       current_line |-> Append(b.current_line, words[k]),
                       current_length |-> b.current_length + Len(words[k]) + 1]
        r == F[Len(words)]
    IN  IF r.current_line # <<>> THEN Append(r.lines, JoinSpace(r.current_line))
        ELSE r.lines

\* lines 268-284: the words are put on lines of at most max_chars_per_line
WrapWords(words) ==
    LET F[k \in 0..Len(words)] ==
            IF k = 0 THEN [lines |-> <<>>, current_line |-> <<>>, current_length |-> 0]
            ELSE LET b == F[k - 1] IN
                 IF b.current_length + Len(words[k]) + 1 > MaxCharsPerLine
                    /\ b.current_line # <<>>
                 THEN [lines |-> Append(b.lines, JoinSpace(b.current_line)),
                       current_line |-> <<words[k]>>,
                       current_length |-> Len(words[k])]
                 ELSE [lines |-> b.lines,
                       current_line |-> Append(b.current_line, words[k]),
                       current_length |-> b.current_length + Len(words[k]) + 1]
        r == F[Len(words)]
    IN  IF r.current_line # <<>> THEN Append(r.lines, JoinSpace(r.current_line))
        ELSE r.lines

\* lines 260-284: the lines of text_content
TextLines(text_content) ==
    IF \E i \in 1..Len(text_content) : text_content[i] = "\n"
    THEN SplitLines(text_content)
    ELSE IF Len(text_content) > WrapThreshold
    THEN WrapWords(SplitWords(text_content))
    ELSE <<text_content>>

\* lines 287-298: the paragraphs of the cleared text frame after the lines
\* are written. A blank line is passed over; the first line goes into the
\* paragraph that tf.clear() leaves, every later one into a new paragraph.
WrittenParagraphs(lines) ==
    LET rest == [k \in 1..(Len(lines) - 1) |-> lines[k + 1]]
        later == SelectSeq(rest, LAMBDA l : Strip(l) # <<>>)
        first == IF lines = <<>> THEN <<>> ELSE Strip(lines[1])
    IN  <<first>> \o [k \in 1..Len(later) |-> Strip(later[k])]

----------------------------------------------------------------------------
(* main.py                                                                 *)

\* os.path.join(a, b) for a relative b
PathJoin(a, b) ==
    IF a = <<>> THEN b
    ELSE IF a[Len(a)] = "/" THEN a \o b
    ELSE a \o <<"/">> \o b

P_data  == <<"d","a","t","a">>
P_input == <<"i","n","p","u","t">>

\* line 25: os.path.join(base_dir, "data", "input", company_folder_name)
InputDir(base_dir, company_folder_name) ==
    PathJoin(PathJoin(PathJoin(base_dir, P_data), P_input), company_folder_name)

MinCorpusLen == 50

\* mutant: only the empty corpus stops the run
CorpusTooShort_EmptyOnly(text) == text = <<>>

\* line 38: not raw_text or len(raw_text) < 50
CorpusTooShort(text) == text = <<>> \/ Len(text) < MinCorpusLen

\* mutant: the result of analyze_data is not checked
Falsy_Unchecked(r) == FALSE

\* line 48: not structured_data (None, or a dict without keys)
Falsy(r) == r = PyNone \/ (r.kind = "dict" /\ DOMAIN r.data = {})

\* a visible message
Msg(m) == [msg |-> m, suffix |-> -1]
\* the completion message names the output path (line 83)
MsgPath(m, k) == [msg |-> m, suffix |-> k]

----------------------------------------------------------------------------
(* Bounded inputs                                                          *)

MaxValueFrags == 3

ValueFrags == {<<"A">>, <<BT>>, <<" ">>, Fence, FenceJson}
Values == {Flatten(fs) : fs \in SeqsUpTo(ValueFrags, MaxValueFrags)}

Bodies ==
    {ObjOpen \o v \o ObjClose : v \in Values}
    \cup {ObjOpen \o v : v \in Values}
    \cup Values
    \cup {EmptyObjText, EmptyArrText}

Prefixes == {<<>>, FenceJson \o <<"\n">>, Fence \o <<"\n">>, <<" ">>}
Suffixes == {<<>>, <<"\n">> \o Fence, <<"\n">>}

Outcomes ==
    {Raises(e) : e \in ErrorClasses}
    \cup {Replies(p, b, s) : p \in Prefixes, b \in Bodies, s \in Suffixes}

\* the text of a JSON array of the strings qs
RECURSIVE ArrItems(_)
ArrItems(qs) ==
    IF qs = <<>> THEN <<>>
    ELSE <<"\"">> \o Head(qs) \o <<"\"">>
         \o (IF Len(qs) > 1 THEN <<",", " ">> ELSE <<>>) \o ArrItems(Tail(qs))

ArrText(qs) == <<"[">> \o ArrItems(qs) \o <<"]">>

Q1 == <<"G","M","P"," ","n","o","r","m","s">>
Q2 == <<"q","2">>

\* what the model call of the query helper may do
QueryOutcomes ==
    {Raises(e) : e \in ErrorClasses}
    \cup {Replies(<<>>, b, <<>>) :
            b \in {EmptyArrText, EmptyObjText, <<"n","o">>,
                   ArrText(<<Q1>>), ArrText(<<Q2, Q1>>),
                   ObjOpen \o <<"A">> \o ObjClose}}
    \cup {Replies(FenceJson \o <<"\n">>, ArrText(<<Q2>>), <<"\n">> \o Fence)}

\* what a call of the query helper may do: its client cannot be built, or
\* the model is called
HelperOutcomes == {ClientRaises} \cup QueryOutcomes

MaxDataFrags == 3

DataFrags == {<<"I","s","o"," ">>, <<"9","0","0","1">>, <<"g","m","P">>,
              <<"W","H","O","-">>, <<"x">>}
CompanyTexts == {Flatten(fs) : fs \in SeqsUpTo(DataFrags, MaxDataFrags)}

MaxResults == 2

ResultItems ==
    {[title |-> "t", content |-> c, url |-> u] :
        c \in {<<"h","a","c","c","p"," ","a","n","d"," ","G","M","P">>,
               <<"g","m","p">>},
        u \in {"https://a.example"}}

TavilyEnvs ==
    {TavilyEnv(FALSE, "none", <<>>),
     TavilyEnv(TRUE, "RequestException", <<>>),
     TavilyEnv(TRUE, "OtherException", <<>>)}
    \cup {TavilyEnv(TRUE, "ok", items) : items \in SeqsUpTo(ResultItems, MaxResults)}


\* --- directory entries ---
T_Long  == <<"A","c","m","e"," ","F","o","r","g","e"," ","m","a","k","e","s"," ","I","S","O"," ","9","0","0","1"," ","c","e","r","t","i","f","i","e","d"," ","s","t","e","e","l"," ","p","a","r","t","s",".">>
T_Short == <<"h","i">>
T_Page  == <<"R","e","v","e","n","u","e"," ","g","r","e","w"," ","1","2","%"," ","i","n"," ","F","Y","2","4",".">>
T_Table == <<" ","y","e","a","r"," "," ","s","a","l","e","s","\n"," ","2","0","2","4"," "," "," "," ","1","0">>

N_a  == <<"a",".","t","x","t">>
N_n  == <<"N",".","M","D">>
N_ds == <<".","D","S","_","S","t","o","r","e">>
N_r  == <<"r",".","p","d","f">>
N_b  == <<"b",".","x","l","s","x">>
N_c  == <<"c",".","b","i","n">>
N_s1 == <<"S","h","e","e","t","1">>
N_s2 == <<"S","2">>

NoLabel == <<>>

E_TextLong  == Entry(N_a, <<Part(NoLabel, T_Long)>>, 0)
E_TextFails == Entry(N_a, <<Part(NoLabel, T_Long)>>, 1)
E_MdShort   == Entry(N_n, <<Part(NoLabel, T_Short)>>, 0)
E_DotFile   == Entry(N_ds, <<Part(NoLabel, T_Short)>>, 0)
E_Pdf       == Entry(N_r, <<Part(NoLabel, T_Page), Part(NoLabel, <<>>), Part(NoLabel, T_Page)>>, 0)
E_PdfFails  == Entry(N_r, <<Part(NoLabel, T_Page), Part(NoLabel, <<>>), Part(NoLabel, T_Page)>>, 3)
E_Other     == Entry(N_c, <<Part(NoLabel, T_Short)>>, 0)

Sheets == <<Part(N_s1, T_Table), Part(N_s2, T_Table)>>

Entries ==
    {E_TextLong, E_TextFails, E_MdShort, E_DotFile, E_Pdf, E_PdfFails, E_Other}
    \cup {Entry(N_b, Sheets, k) : k \in 0..2}

MaxFiles == 2

\* os.listdir: entries with distinct names, in any order
Listings ==
    {fs \in SeqsUpTo(Entries, MaxFiles) :
        \A i, j \in 1..Len(fs) : i # j => fs[i].name # fs[j].name}

Folders == {Folder(FALSE, <<>>)} \cup {Folder(TRUE, fs) : fs \in Listings}

D_root == <<"/">>
D_app  == <<"/","s","r","v","/","a","p","p">>
C_X    == <<"X">>
C_K    == <<"K","a","l","y","a","n","i","_","F","o","r","g","e">>

\* os.getcwd() and the company folder name
InputDirs == {InputDir(b, c) : b \in {D_root, D_app}, c \in {C_X, C_K}}

\* the folders a pipeline run is started on
PipeFolders ==
    {Folder(FALSE, <<>>), Folder(TRUE, <<>>), Folder(TRUE, <<E_DotFile>>),
     Folder(TRUE, <<E_MdShort>>), Folder(TRUE, <<E_TextLong>>),
     Folder(TRUE, <<E_DotFile, E_TextLong>>), Folder(TRUE, <<E_TextFails>>)}

\* what the model call of analyze_data may do in a pipeline run
PipeOutcomes ==
    {Raises(e) : e \in ErrorClasses}
    \cup {Replies(<<>>, b, <<>>) :
            b \in {ObjOpen \o <<"A">> \o ObjClose, EmptyObjText, EmptyArrText,
                   <<"n","o">>}}
    \cup {Replies(FenceJson \o <<"\n">>, ObjOpen \o <<"A">> \o ObjClose,
                  <<"\n">> \o Fence)}

\* WebData
EmptyWebData ==
    [images |-> <<>>, certifications |-> <<>>, business_info |-> EmptyMap,
     citations |-> <<>>]

GenEnvs ==
    {GenEnv(t, q) : t \in {"missing", "load_fails", "fill_raises", "save_fails", "ok"},
                    q \in {"ok", "save_fails"}}
\* the last call of create_presentation: n counts the calls
NoGen == [n |-> 0, env |-> GenEnv("none", "none"), raised |-> FALSE, tried |-> <<>>]
LastGen(n, env, r) == [n |-> n, env |-> env, raised |-> r.raised, tried |-> r.tried]

\* the files of the target path that exist before a run: suffix -> content,
\* content 0 for a file that was there before
MaxPreExisting == 3
MaxSaves == 4

OldFiles(S) == [k \in S |-> 0]
\* a few files, or the target path and every suffix up to the cap, or all
\* of these but one
PreExisting ==
    {OldFiles(S) : S \in SUBSET (0..MaxPreExisting)}
    \cup {OldFiles(0..MaxAttempts)}
    \cup {OldFiles((0..MaxAttempts) \ {k}) : k \in {1, MaxAttempts}}

\* --- web enrichment ---
MaxWebResults == 1

WebTexts == {<<"x">>, <<"I","s","o"," ","9","0","0","1">>}

WebQueryOutcomes ==
    {ClientRaises, Raises("OtherException"), Replies(<<>>, ArrText(<<Q2, Q1, Q1>>), <<>>)}

\* a text field of a photo: a string, None, or no such key
PhotoText(s) == [kind |-> "str", v |-> s]
NoPhotoText == [kind |-> "none", v |-> ""]
AbsentPhotoText == [kind |-> "absent", v |-> ""]

Photo(id, ok, description, alt_description) ==
    [url |-> id, full |-> id, description |-> description,
     alt_description |-> alt_description, html |-> id, ok |-> ok]

\* what one photo request answers
PhotoResponses ==
    {[http |-> "RequestException", photos |-> <<>>],
     [http |-> "ok", photos |->
        <<Photo("p1", TRUE, PhotoText("a lab"), PhotoText("a lab bench")),
          Photo("p2", FALSE, NoPhotoText, NoPhotoText),
          Photo("p3", TRUE, NoPhotoText, PhotoText("a lab bench"))>>],
     [http |-> "ok", photos |->
        <<Photo("p4", TRUE, PhotoText(""), PhotoText("a lab bench")),
          Photo("p5", TRUE, AbsentPhotoText, PhotoText("a lab bench")),
          Photo("p6", TRUE, NoPhotoText, NoPhotoText),
          Photo("p7", TRUE, AbsentPhotoText, PhotoText(""))>>]}

WebItems ==
    {[title |-> "t1", content |-> <<"g","m","p">>, url |-> "https://a.example"],
     [title |-> "t2", content |-> <<>>, url |-> "https://b.example"]}

\* what one provider request does once it is made
ProviderAnswers ==
    {[http |-> "RequestException", items |-> <<>>]}
    \cup {[http |-> "ok", items |-> items] : items \in SeqsUpTo(WebItems, MaxWebResults)}

\* a result whose content is longer than a snippet, and one whose content
\* is the JSON null
LongItem ==
    [title |-> "t3", content |-> [i \in 1..(SnippetLen + 1) |-> IF i % 2 = 0 THEN "a" ELSE "b"],
     url |-> "https://c.example"]
NullItem == [title |-> "t4", content |-> NoneBody, url |-> "https://d.example"]

MarketAnswers ==
    ProviderAnswers
    \cup {[http |-> "ok", items |-> <<LongItem>>],
          [http |-> "ok", items |-> <<NullItem>>],
          [http |-> "ok", items |-> <<LongItem, NullItem>>]}

\* --- template generation ---
U_a == <<"h","t","t","p",":","/","/","a">>
U_b == <<"h","t","t","p","s",":","/","/","b">>
U_c == <<"h","t","t","p",":","/","/","c">>
U_d == <<"h","t","t","p",":","/","/","d">>
U_ftp == <<"f","t","p",":","/","/","e">>

\* a partner entry as search_business_info builds it has a url only
PartnerAt(u) == [image_url |-> <<>>, image |-> <<>>, url |-> u]
GeneralImage(u) == [url |-> u, download_url |-> U_d]

ListOf(v) == [kind |-> "list", v |-> v]
\* a dict: {} is DictOf(FALSE, <<>>, FALSE), {'note': 'n'} is
\* DictOf(FALSE, <<>>, TRUE), {'partners': v} is DictOf(TRUE, v, FALSE)
DictOf(has_partners, v, others) ==
    [kind |-> "dict", has_partners |-> has_partners, v |-> v, others |-> others]

PartnerLists ==
    {<<PartnerAt(U_a)>>,
     <<PartnerAt(U_a), PartnerAt(U_b)>>,
     <<PartnerAt(U_a), PartnerAt(U_ftp), PartnerAt(U_b)>>,
     <<PartnerAt(U_a), PartnerAt(U_b), PartnerAt(U_c), PartnerAt(U_d)>>,
     <<PartnerAt(<<>>)>>}

ImageLists ==
    {<<>>, <<GeneralImage(U_a)>>,
     <<GeneralImage(U_a), GeneralImage(<<>>), GeneralImage(U_c), GeneralImage(U_b)>>}

\* the general images are read only when no partner entry is given
GenWebDatas(certifications) ==
    {[certifications |-> certifications, images |-> <<GeneralImage(U_c)>>,
      partners |-> ListOf(p)] : p \in PartnerLists}
    \cup {[certifications |-> certifications, images |-> i, partners |-> p] :
             i \in ImageLists,
             p \in {ListOf(<<>>), [kind |-> "none"], DictOf(FALSE, <<>>, FALSE),
                    DictOf(FALSE, <<>>, TRUE), DictOf(TRUE, <<>>, FALSE)}}
    \cup {[certifications |-> certifications, images |-> <<>>,
           partners |-> DictOf(TRUE, <<PartnerAt(U_b)>>, o)] : o \in BOOLEAN}

\* a record with its lists, one without, and one whose financials is null
\* the certifications of the web data of a full record and of a sparse one
CertLists == {<<"ISO">>, <<>>}

GenRecords ==
    {[lists |-> TRUE, financials_null |-> FALSE],
     [lists |-> FALSE, financials_null |-> FALSE],
     [lists |-> TRUE, financials_null |-> TRUE]}

Placeholders(types) == [i \in DOMAIN types |-> [type |-> types[i], content |-> Untouched]]
SlideOf(types) == [ph |-> Placeholders(types), pictures |-> <<>>]

\* the slides of the shipped template as lines 513, 549 and 579 list them;
\* type 1 is a title, type 8 a chart
StandardSlides ==
    <<SlideOf(0 :> 1 @@ 1 :> BODY),
      SlideOf(10 :> BODY @@ 11 :> PICTURE @@ 12 :> PICTURE @@ 13 :> PICTURE
              @@ 14 :> OBJECT @@ 15 :> OBJECT @@ 16 :> OBJECT),
      SlideOf(10 :> 8 @@ 11 :> BODY @@ 12 :> 8 @@ 13 :> 8
              @@ 14 :> BODY @@ 15 :> BODY),
      SlideOf(10 :> BODY)>>

\* a template whose second slide has other placeholders
OddSlides ==
    [StandardSlides EXCEPT ![2] =
        SlideOf(10 :> BODY @@ 11 :> BODY @@ 13 :> PICTURE @@ 14 :> PICTURE
                @@ 15 :> OBJECT)]

Templates ==
    {[status |-> "missing", slides |-> <<>>],
     [status |-> "load_fails", slides |-> <<>>],
     [status |-> "ok", slides |-> OddSlides]}
    \cup {[status |-> "ok", slides |-> Take(StandardSlides, n)] :
             n \in 1..Len(StandardSlides)}

SlotOutcomes == {"ok", "http_error", "invalid_image", "picture_fails"}

\* --- one placeholder filled by its index ---
FillSlides == {StandardSlides[i] : i \in 1..Len(StandardSlides)} \cup {OddSlides[2]}
FillIndices == {0, 1, 10, 11, 13, 14, 16, 17}
\* the empty string names no file
FillContents ==
    {[text |-> "", exists |-> FALSE]}
    \cup {[text |-> "Business_Overview", exists |-> e] : e \in BOOLEAN}
FillContentTypes == {"text", "image", "chart"}

\* --- the calls of one process ---
MaxDecks == 2

ProcessRecords == {[lists |-> TRUE, financials_null |-> FALSE]}
ProcessTemplates ==
    {[status |-> "missing", slides |-> <<>>],
     [status |-> "ok", slides |-> StandardSlides]}
ProcessWebDatas(certifications) ==
    {[certifications |-> certifications, images |-> <<>>, partners |-> ListOf(p)] :
        p \in {<<>>, <<PartnerAt(U_a)>>, <<PartnerAt(U_a), PartnerAt(U_b)>>}}
ProcessSlotOutcomes == {"ok", "http_error"}

\* the text placeholders that may raise
FailingTexts == {{}, {<<2, 14>>}, {<<3, 11>>}}

\* --- placeholders and text lengths for the font size ---
MaxTextLen == 600

\* widths and heights in English Metric Units: none, just under and at one
\* character per line (1/12 inch) or one line (1/2 inch), and larger ones
PlaceholderWidths == {0, 76199, 76200, 990600, 3657600}
PlaceholderHeights == {0, 457199, 457200, 2743200, 11430000}

\* --- texts for the lines of a placeholder ---
MaxWords == 4

WordOf(n) == [i \in 1..n |-> "a"]
WrapWordSet == {WordOf(1), WordOf(39), WordOf(40), WordOf(81)}

\* the words with one character between neighbours, gaps[k] after word k
RECURSIVE JoinGaps(_, _)
JoinGaps(words, gaps) ==
    IF Len(words) = 1 THEN words[1]
    ELSE words[1] \o <<gaps[1]>>
         \o JoinGaps(Tail(words), [k \in 1..(Len(gaps) - 1) |-> gaps[k + 1]])

\* the gaps of k words: all spaces, or one newline among spaces
GapsOf(k) ==
    {[i \in 1..(k - 1) |-> IF i = j THEN "\n" ELSE " "] : j \in 0..(k - 1)}

\* texts of words parted by spaces and at most one newline, and two texts
\* whose length is made of spaces
WrapTexts ==
    {<<>>}
    \cup UNION {{JoinGaps(ws, gs) : ws \in [1..k -> WrapWordSet], gs \in GapsOf(k)} :
                   k \in 1..MaxWords}
    \cup {WordOf(1) \o [i \in 1..WrapThreshold |-> " "] \o WordOf(1),
          [i \in 1..(WrapThreshold + 1) |-> " "]}

\* --- query generation on its own ---
Q3 == <<"q","3">>

\* the replies of the certification search, and arrays of as many queries
\* as are kept and of one more
GenOutcomes ==
    QueryOutcomes
    \cup {Replies(<<>>, ArrText(<<Q1, Q2, Q3, Q1, Q2>>), <<>>),
          Replies(<<>>, ArrText(<<Q1, Q2, Q3, Q1, Q2, Q3>>), <<>>),
          Replies(Fence \o <<"\n">>, ArrText(<<Q3, Q2, Q1, Q3, Q2, Q1, Q3>>), <<>>),
          Replies(<<" ">>, ArrText(<<Q3>>), <<"\n">>),
          Replies(<<>>, <<"[", "\"", "q">>, <<>>)}

SearchTypes == {"images", "certifications", "business_info", "partners", "news"}

----------------------------------------------------------------------------
(* Specifications                                                          *)

Unset == [kind |-> "unset"]

AgentIdle ==
    /\ agent_pc = "idle"
    /\ llm_outcome = NoOutcome
    /\ agent_result = Unset

CertIdle ==
    /\ cert_pc = "idle"
    /\ company_data = <<>>
    /\ query_outcome = NoOutcome
    /\ tavily_env = NoTavily
    /\ cert_result = Unset

PipeIdle ==
    /\ pc = "idle"
    /\ input_dir = <<>>
    /\ folder = Folder(FALSE, <<>>)
    /\ raw_text = <<>>
    /\ structured_data = Unset
    /\ log = <<>>
    /\ stage_calls = <<>>

FilesIdle ==
    /\ out_files = OldFiles({})
    /\ out_files0 = OldFiles({})
    /\ saves = <<>>
    /\ last_gen = NoGen

WebIdle  == web_pc = "idle" /\ web_in = Unset /\ web_out = Unset
GenIdle  == gen_pc = "idle" /\ gen_in = Unset /\ gen_out = Unset
FontIdle == font_pc = "idle" /\ font_in = Unset /\ font_out = Unset
WrapIdle == wrap_pc = "idle" /\ wrap_in = Unset /\ wrap_out = Unset
QGenIdle == qgen_pc = "idle" /\ qgen_in = Unset /\ qgen_out = Unset

\* --- analyze_data on one outcome of the model call ---
AgentInit ==
    /\ agent_pc = "ready"
    /\ llm_outcome \in Outcomes
    /\ agent_result = Unset
    /\ CertIdle /\ PipeIdle /\ FilesIdle /\ ingest_pc = "idle"
    /\ WebIdle /\ GenIdle /\ FontIdle /\ WrapIdle /\ QGenIdle

AnalyzeData ==
    /\ agent_pc = "ready"
    /\ agent_result' = analyze_data(llm_outcome)
    /\ agent_pc' = "done"
    /\ UNCHANGED <<llm_outcome, CertVars, PipeVars, FileVars, ingest_pc,
                   WebVars, GenVars, FontVars, WrapVars, QGenVars>>

AgentNext == AnalyzeData

SpecAgent == AgentInit /\ [][AgentNext]_vars

\* --- search_certifications on one raw text ---
CertInit ==
    /\ cert_pc = "ready"
    /\ company_data \in CompanyTexts
    /\ query_outcome = NoOutcome
    /\ tavily_env = NoTavily
    /\ cert_result = Unset
    /\ AgentIdle /\ PipeIdle /\ FilesIdle /\ ingest_pc = "idle"
    /\ WebIdle /\ GenIdle /\ FontIdle /\ WrapIdle /\ QGenIdle

\* search_certifications(company_name, company_data). The query helper and
\* the provider act only when they are called: an outcome is drawn for them
\* only when the scan of the company data found no code, and what they did
\* is recorded for the calls that were made.
SearchCertifications ==
    /\ cert_pc = "ready"
    /\ \E found \in {LocalCerts(company_data)} :
        \E r0 \in {SearchAfterScan(found, NoOutcome, NoTavily)} :
          \/ /\ r0.query_calls = <<>>
             /\ cert_result' = r0
             /\ UNCHANGED <<query_outcome, tavily_env>>
          \/ /\ r0.query_calls # <<>>
             /\ \E o \in HelperOutcomes, env \in TavilyEnvs :
                   \E r \in {SearchAfterScan(found, o, env)} :
                      /\ cert_result' = r
                      /\ query_outcome' = o
                      /\ tavily_env' = IF r.tavily_calls = <<>> THEN NoTavily ELSE env
    /\ cert_pc' = "done"
    /\ UNCHANGED <<company_data, AgentVars, PipeVars, FileVars, ingest_pc,
                   WebVars, GenVars, FontVars, WrapVars, QGenVars>>

CertNext == SearchCertifications

SpecCert == CertInit /\ [][CertNext]_vars

\* --- ingest_company_data on one folder ---
IngestInit ==
    /\ ingest_pc = "ready"
    /\ pc = "idle"
    /\ input_dir \in InputDirs
    /\ folder \in Folders
    /\ raw_text = <<>>
    /\ structured_data = Unset
    /\ log = <<>>
    /\ stage_calls = <<>>
    /\ AgentIdle /\ CertIdle /\ FilesIdle
    /\ WebIdle /\ GenIdle /\ FontIdle /\ WrapIdle /\ QGenIdle

IngestCompanyData ==
    /\ ingest_pc = "ready"
    /\ raw_text' = ingest_company_data(input_dir, folder)
    /\ ingest_pc' = "done"
    /\ UNCHANGED <<pc, input_dir, folder, structured_data, log, stage_calls,
                   AgentVars, CertVars, FileVars, WebVars, GenVars, FontVars, WrapVars, QGenVars>>

IngestNext == IngestCompanyData

SpecIngest == IngestInit /\ [][IngestNext]_vars

\* --- create_presentation called again and again with one output path ---
SaveInit ==
    /\ out_files \in PreExisting
    /\ out_files0 = out_files
    /\ saves = <<>>
    /\ last_gen = NoGen
    /\ AgentIdle /\ CertIdle /\ PipeIdle /\ ingest_pc = "idle"
    /\ WebIdle /\ GenIdle /\ FontIdle /\ WrapIdle /\ QGenIdle

\* the deck written by a save is told apart by its serial number, the
\* number of saves so far plus one
CreatePresentation ==
    /\ last_gen.n < MaxSaves
    /\ \E env \in GenEnvs :
         \E r \in {create_presentation(out_files, env, Len(saves) + 1)} :
            /\ out_files' = r.files
            /\ saves' = saves \o r.written
            /\ last_gen' = LastGen(last_gen.n + 1, env, r)
    /\ UNCHANGED <<out_files0, AgentVars, CertVars, PipeVars, ingest_pc,
                   WebVars, GenVars, FontVars, WrapVars, QGenVars>>

SaveNext == CreatePresentation

SpecSave == SaveInit /\ [][SaveNext]_vars

\* --- get_web_data_for_company on one raw text and one environment ---
\* the provider as one call of search_text_tavily meets it
Provider(key, answer) == TavilyEnv(key, answer.http, answer.items)

\* a search that was not reached because an earlier one raised
NoCertSearch ==
    [raised |-> FALSE, certifications |-> <<>>, citations |-> <<>>,
     query_calls |-> <<>>, tavily_calls |-> <<>>]
NoBusinessSearch ==
    [raised |-> FALSE, called |-> FALSE, query_calls |-> <<>>,
     market_info |-> <<>>, partners |-> <<>>, trends |-> <<>>,
     citations |-> <<>>, tavily_calls |-> <<>>, tavily_queries |-> <<>>]

\* get_web_data_for_company(company_name, company_data), lines 468-521, in
\* the environment e: what the query helper does when called for the images
\* (o_images) and for the text searches (o_text), whether the provider key
\* is set, and what the photo requests and the three text searches answer.
\* The three searches run in turn and no call is inside a try: the first
\* that raises ends the function, the later ones are not made and nothing
\* is returned. posts counts the requests sent to the text-search provider.
WebDataFor(data, e) ==
    LET \* lines 490-493
        images == {search_images(e.o_images, e.unsplash, ImageMaxResults)}
        \* lines 500-503
        with_certs ==
            {[img |-> img,
              certs |-> IF img.raised THEN NoCertSearch
                        ELSE SearchAfterScan(LocalCerts(data), e.o_text,
                                             Provider(e.key, e.certs))] :
                img \in images}
        \* lines 510-513
        with_business ==
            {[img |-> s.img, certs |-> s.certs,
              biz |-> IF s.img.raised \/ s.certs.raised THEN NoBusinessSearch
                      ELSE search_business_info(e.o_text, e.o_text,
                                                Provider(e.key, e.market),
                                                Provider(e.key, e.partners))] :
                s \in with_certs}
    IN  CHOOSE w \in
          {[kind |-> IF s.img.raised \/ s.certs.raised \/ s.biz.raised
                     THEN "raised" ELSE "returned",
            web_data |-> IF s.img.raised \/ s.certs.raised \/ s.biz.raised
                         THEN Unset
                         ELSE get_web_data_for_company(s.img, s.certs,
                                 [market_info |-> s.biz.market_info,
                                  partners |-> s.biz.partners,
                                  trends |-> s.biz.trends,
                                  citations |-> s.biz.citations]),
            images |-> s.img, certifications |-> s.certs, business_info |-> s.biz,
            posts |-> (IF s.certs.tavily_calls = <<>> THEN 0
                       ELSE tavily_posts(Provider(e.key, e.certs)))
                      + (IF Len(s.biz.tavily_calls) >= 1
                         THEN tavily_posts(s.biz.tavily_calls[1]) ELSE 0)
                      + (IF Len(s.biz.tavily_calls) >= 2
                         THEN tavily_posts(s.biz.tavily_calls[2]) ELSE 0)] :
             s \in with_business} : TRUE

\* the environments a pipeline run meets at the enrichment stage: the client
\* of the query helper cannot be built; it is built for the image queries
\* and not for the text queries; the model call fails, no provider key is
\* set and the photo requests fail; everything answers
FailedPhotos == [i \in 1..ImageQueries |-> [http |-> "RequestException", photos |-> <<>>]]
SomePhotos ==
    [i \in 1..ImageQueries |->
        [http |-> "ok",
         photos |-> <<Photo("p1", TRUE, PhotoText("a lab"), PhotoText("a lab bench"))>>]]
NoAnswer == [http |-> "RequestException", items |-> <<>>]
AnAnswer ==
    [http |-> "ok",
     items |-> <<[title |-> "t1", content |-> <<"g","m","p">>, url |-> "https://a.example"]>>]
WebEnv(o_images, o_text, key, unsplash, answer) ==
    [o_images |-> o_images, o_text |-> o_text, key |-> key, unsplash |-> unsplash,
     certs |-> answer, market |-> answer, partners |-> answer]
EnrichEnvs ==
    {WebEnv(ClientRaises, ClientRaises, FALSE, FailedPhotos, NoAnswer),
     WebEnv(Replies(<<>>, ArrText(<<Q2, Q1, Q1>>), <<>>), ClientRaises, TRUE, SomePhotos,
            AnAnswer),
     WebEnv(Raises("OtherException"), Raises("OtherException"), FALSE, FailedPhotos,
            NoAnswer),
     WebEnv(Replies(<<>>, ArrText(<<Q2, Q1, Q1>>), <<>>),
            Replies(<<>>, ArrText(<<Q2, Q1, Q1>>), <<>>), TRUE, SomePhotos, AnAnswer)}

\* --- one run of the program ---
\* A run starts at the command line (pc = "main") or with a direct call of
\* run_pipeline (pc = "start").
Init ==
    /\ pc \in {"main", "start"}
    /\ input_dir \in InputDirs
    /\ folder \in PipeFolders
    /\ raw_text = <<>>
    /\ structured_data = Unset
    /\ log = <<>>
    /\ stage_calls = <<>>
    /\ out_files \in {OldFiles({}), OldFiles({0})}
    /\ out_files0 = out_files
    /\ saves = <<>>
    /\ last_gen = NoGen
    /\ AgentIdle /\ CertIdle /\ ingest_pc = "idle"
    /\ WebIdle /\ GenIdle /\ FontIdle /\ WrapIdle /\ QGenIdle

\* main.py lines 86-104: run_pipeline is called when the folder exists
Main ==
    /\ pc = "main"
    /\ IF folder.exists
       THEN pc' = "start" /\ UNCHANGED log
       ELSE pc' = "returned" /\ log' = <<Msg("Error: The folder does not exist")>>
    /\ UNCHANGED <<input_dir, folder, raw_text, structured_data, stage_calls,
                   AgentVars, CertVars, FileVars, ingest_pc,
                   WebVars, GenVars, FontVars, WrapVars, QGenVars>>

\* run_pipeline lines 19-42
Ingest ==
    /\ pc = "start"
    /\ \E text \in {ingest_company_data(input_dir, folder)} :
          /\ raw_text' = text
          /\ IF CorpusTooShort(text)
             THEN /\ pc' = "returned"
                  /\ log' = log \o <<Msg("STARTING PIPELINE"), Msg("Step 1"),
                                    Msg("CRITICAL FAILURE: No text extracted")>>
             ELSE /\ pc' = "ingested"
                  /\ log' = log \o <<Msg("STARTING PIPELINE"), Msg("Step 1"),
                                    Msg("Extracted characters of text")>>
    /\ stage_calls' = Append(stage_calls, "ingest_company_data")
    /\ UNCHANGED <<input_dir, folder, structured_data,
                   AgentVars, CertVars, FileVars, ingest_pc,
                   WebVars, GenVars, FontVars, WrapVars, QGenVars>>

\* the message analyze_data prints before it returns (lines 102, 106, 123)
AgentMessage(o, r) ==
    IF r = PyNone THEN Msg("API Error")
    ELSE IF o.kind = "raise" \/ ~json_loads(clean_json_string(Content(o))).ok
         THEN Msg("JSON Error")
    ELSE Msg("Analysis Complete")

\* run_pipeline lines 44-54
Analyze ==
    /\ pc = "ingested"
    /\ \E o \in PipeOutcomes :
        \E r \in {analyze_data(o)} :
          /\ llm_outcome' = o
          /\ agent_result' = r
          /\ structured_data' = r
          /\ IF Falsy(r)
             THEN /\ pc' = "returned"
                  /\ log' = log \o <<Msg("Step 2"), AgentMessage(o, r),
                                    Msg("CRITICAL FAILURE: AI Agent failed to return data")>>
             ELSE /\ pc' = "analyzed"
                  /\ log' = log \o <<Msg("Step 2"), AgentMessage(o, r),
                                    Msg("Analysis complete")>>
    /\ stage_calls' = Append(stage_calls, "analyze_data")
    /\ UNCHANGED <<input_dir, folder, raw_text, agent_pc,
                   CertVars, FileVars, ingest_pc,
                   WebVars, GenVars, FontVars, WrapVars, QGenVars>>

\* mutant: the record is passed on without a web_data field
WithWebData_Dropped(r, w) == r

WithWebData(r, w) ==
    [kind |-> "dict",
     data |-> [k \in DOMAIN r.data \cup {"web_data"} |->
                  IF k = "web_data" THEN w ELSE r.data[k]]]

\* run_pipeline lines 56-71: get_web_data_for_company runs on the raw text
\* in some environment; what it returns is stored, and when it raises the
\* handler of lines 64-71 stores the all-empty web data
Enrich ==
    /\ pc = "analyzed"
    /\ \E e \in EnrichEnvs :
        \E w \in {WebDataFor(raw_text, e)} :
          IF w.kind = "raised"
          THEN /\ structured_data' = WithWebData(structured_data, EmptyWebData)
               /\ log' = log \o <<Msg("Step 3"), Msg("Web search error"),
                                 Msg("Continuing without web data")>>
          ELSE /\ structured_data' = WithWebData(structured_data, w.web_data)
               /\ log' = log \o <<Msg("Step 3"), Msg("Web search complete")>>
    /\ pc' = "enriched"
    /\ stage_calls' = Append(stage_calls, "get_web_data_for_company")
    /\ UNCHANGED <<input_dir, folder, raw_text,
                   AgentVars, CertVars, FileVars, ingest_pc,
                   WebVars, GenVars, FontVars, WrapVars, QGenVars>>

\* run_pipeline lines 73-84; the completion message names output_pptx_path
Generate ==
    /\ pc = "enriched"
    /\ \E env \in GenEnvs :
         \E r \in {create_presentation(out_files, env, 1)} :
            /\ out_files' = r.files
            /\ saves' = saves \o r.written
            /\ last_gen' = LastGen(1, env, r)
            /\ IF r.raised
               THEN log' = log \o <<Msg("Step 4"), Msg("GENERATOR ERROR")>>
               ELSE log' = log \o <<Msg("Step 4"), Msg("PPT Saved"),
                                    MsgPath("PIPELINE COMPLETE. Output file", 0)>>
    /\ pc' = "returned"
    /\ stage_calls' = Append(stage_calls, "create_presentation")
    /\ UNCHANGED <<input_dir, folder, raw_text, structured_data, out_files0,
                   AgentVars, CertVars, ingest_pc,
                   WebVars, GenVars, FontVars, WrapVars, QGenVars>>

Next == Main \/ Ingest \/ Analyze \/ Enrich \/ Generate

Spec == Init /\ [][Next]_vars

\* --- get_web_data_for_company on one raw text ---
WebInit ==
    /\ web_pc = "ready"
    /\ web_in \in [data : WebTexts, o_images : WebQueryOutcomes, o_text : WebQueryOutcomes,
                   key : BOOLEAN, unsplash : [1..ImageQueries -> PhotoResponses],
                   certs : ProviderAnswers, market : MarketAnswers,
                   partners : ProviderAnswers]
    /\ web_out = Unset
    /\ AgentIdle /\ CertIdle /\ PipeIdle /\ FilesIdle /\ ingest_pc = "idle"
    /\ GenIdle /\ FontIdle /\ WrapIdle /\ QGenIdle

GetWebData ==
    /\ web_pc = "ready"
    /\ web_out' = WebDataFor(web_in.data, web_in)
    /\ web_pc' = "done"
    /\ UNCHANGED <<web_in, AgentVars, CertVars, PipeVars, FileVars, ingest_pc,
                   GenVars, FontVars, WrapVars, QGenVars>>

WebNext == GetWebData

SpecWeb == WebInit /\ [][WebNext]_vars

\* --- create_presentation on one record ---
NoGenIn == [kind |-> "none"]

\* before the call gen_out holds TEMP_IMAGE_DIR only
GenInit ==
    /\ gen_pc = "ready"
    /\ gen_in = NoGenIn
    /\ gen_out \in {[temp |-> t] : t \in {TempNone, TempExists, TempStale}}
    /\ FilesIdle
    /\ AgentIdle /\ CertIdle /\ PipeIdle /\ ingest_pc = "idle"
    /\ WebIdle /\ FontIdle /\ WrapIdle /\ QGenIdle

\* TEMP_IMAGE_DIR outlives a call: a call starts with no directory named,
\* or with what an earlier call left, a directory or the name of a removed
\* one. What the call meets is drawn as far as the call gets: the picture
\* outcomes for the positions it downloads, the saves it reaches, the
\* removal it attempts.
CreatePresentationCall(records, templates, web_datas, failings, slot_outcomes) ==
    /\ \E record \in records, template \in templates :
       \E web_data \in web_datas[IF record.lists THEN <<"ISO">> ELSE <<>>] :
       \E failing \in (IF template.status = "ok" /\ ~record.financials_null
                       THEN failings ELSE {{}}) :
       \E outcomes \in [(IF template.status = "ok" /\ ~record.financials_null
                            /\ Len(template.slides) >= 2
                         THEN DownloadSlots(CustomerPartners(web_data.partners,
                                                             web_data.images))
                         ELSE {}) -> slot_outcomes] :
       \E filled \in {FillTemplate(record, web_data, template, gen_out.temp,
                                   failing, outcomes)} :
       \E save \in (IF filled.loaded /\ ~filled.raised
                    THEN {"ok", "save_fails"} ELSE {"none"}) :
       \E programmatic \in (IF filled.raised \/ save = "ok"
                            THEN {"none"} ELSE {"ok", "save_fails"}) :
       \E env \in {GenEnv(TemplateOutcome(template, filled, save), programmatic)} :
       \E r \in {create_presentation(out_files, env, Len(saves) + 1)} :
       \E rmtree \in (IF CleanUp(r, filled.temp, "ok").called
                      THEN {"ok", "fails"} ELSE {"none"}) :
         /\ gen_in' = [record |-> record, web_data |-> web_data,
                       template |-> template, failing |-> failing,
                       outcomes |-> outcomes, env |-> env, rmtree |-> rmtree,
                       temp |-> gen_out.temp]
         /\ gen_out' = [raised |-> r.raised, tried |-> r.tried,
                        written |-> r.written, filled |-> filled,
                        removal |-> CleanUp(r, filled.temp, rmtree).called,
                        temp |-> CleanUp(r, filled.temp, rmtree).temp]
         /\ out_files' = r.files
         /\ saves' = saves \o r.written
         /\ last_gen' = LastGen(last_gen.n + 1, env, r)
    /\ UNCHANGED <<out_files0, AgentVars, CertVars, PipeVars, ingest_pc,
                   WebVars, FontVars, WrapVars, QGenVars>>

GenerateDeck ==
    /\ gen_pc = "ready"
    /\ CreatePresentationCall(GenRecords, Templates,
                              [c \in CertLists |-> GenWebDatas(c)],
                              FailingTexts, SlotOutcomes)
    /\ gen_pc' = "done"

GenNext == GenerateDeck

SpecGen == GenInit /\ [][GenNext]_vars

\* --- create_presentation called again and again in one process ---
\* the process starts with TEMP_IMAGE_DIR = None (line 50)
ProcessInit ==
    /\ gen_pc = "ready"
    /\ gen_in = NoGenIn
    /\ gen_out = [temp |-> TempNone]
    /\ FilesIdle
    /\ AgentIdle /\ CertIdle /\ PipeIdle /\ ingest_pc = "idle"
    /\ WebIdle /\ FontIdle /\ WrapIdle /\ QGenIdle

\* one more call in the same process: TEMP_IMAGE_DIR is what the call
\* before left
GenerateAgain ==
    /\ last_gen.n < MaxDecks
    /\ gen_pc \in {"ready", "done"}
    /\ CreatePresentationCall(ProcessRecords, ProcessTemplates,
                              [c \in CertLists |-> ProcessWebDatas(c)],
                              {{}}, ProcessSlotOutcomes)
    /\ gen_pc' = "done"

ProcessNext == GenerateAgain

SpecProcess == ProcessInit /\ [][ProcessNext]_vars

\* --- fill_placeholder_by_index on one slide ---
FillInit ==
    /\ gen_pc = "ready"
    /\ gen_in \in [slide : FillSlides, placeholder_idx : FillIndices,
                   content : FillContents, content_type : FillContentTypes,
                   fails : BOOLEAN]
    /\ gen_out = Unset
    /\ FilesIdle
    /\ AgentIdle /\ CertIdle /\ PipeIdle /\ ingest_pc = "idle"
    /\ WebIdle /\ FontIdle /\ WrapIdle /\ QGenIdle

FillByIndex ==
    /\ gen_pc = "ready"
    /\ gen_out' = fill_placeholder_by_index(gen_in.slide, gen_in.placeholder_idx,
                                            gen_in.content, gen_in.content_type,
                                            gen_in.fails)
    /\ gen_pc' = "done"
    /\ UNCHANGED <<gen_in, AgentVars, CertVars, PipeVars, FileVars, ingest_pc,
                   WebVars, FontVars, WrapVars, QGenVars>>

FillNext == FillByIndex

SpecFill == FillInit /\ [][FillNext]_vars

\* --- the font size of one text in one placeholder ---
FontInit ==
    /\ font_pc = "ready"
    /\ font_in \in [text_length : 0..MaxTextLen, width : PlaceholderWidths,
                    height : PlaceholderHeights]
    /\ font_out = Unset
    /\ AgentIdle /\ CertIdle /\ PipeIdle /\ FilesIdle /\ ingest_pc = "idle"
    /\ WebIdle /\ GenIdle /\ WrapIdle /\ QGenIdle

SizeText ==
    /\ font_pc = "ready"
    /\ font_out' = [size |-> FontSizeFor(font_in.text_length, font_in.width,
                                          font_in.height)]
    /\ font_pc' = "done"
    /\ UNCHANGED <<font_in, AgentVars, CertVars, PipeVars, FileVars, ingest_pc,
                   WebVars, GenVars, WrapVars, QGenVars>>

FontNext == SizeText

SpecFont == FontInit /\ [][FontNext]_vars

\* --- the lines of one text ---
WrapInit ==
    /\ wrap_pc = "ready"
    /\ wrap_in \in WrapTexts
    /\ wrap_out = Unset
    /\ AgentIdle /\ CertIdle /\ PipeIdle /\ FilesIdle /\ ingest_pc = "idle"
    /\ WebIdle /\ GenIdle /\ FontIdle /\ QGenIdle

WriteLines ==
    /\ wrap_pc = "ready"
    /\ \E lines \in {TextLines(wrap_in)} :
         wrap_out' = [lines |-> lines, paragraphs |-> WrittenParagraphs(lines)]
    /\ wrap_pc' = "done"
    /\ UNCHANGED <<wrap_in, AgentVars, CertVars, PipeVars, FileVars, ingest_pc,
                   WebVars, GenVars, FontVars, QGenVars>>

WrapNext == WriteLines

SpecWrap == WrapInit /\ [][WrapNext]_vars

\* --- generate_search_queries on one outcome of the model call ---
QGenInit ==
    /\ qgen_pc = "ready"
    /\ qgen_in \in [o : GenOutcomes, search_type : SearchTypes]
    /\ qgen_out = Unset
    /\ AgentIdle /\ CertIdle /\ PipeIdle /\ FilesIdle /\ ingest_pc = "idle"
    /\ WebIdle /\ GenIdle /\ FontIdle /\ WrapIdle

GenerateQueries ==
    /\ qgen_pc = "ready"
    /\ qgen_out' = generate_search_queries(qgen_in.o, qgen_in.search_type)
    /\ qgen_pc' = "done"
    /\ UNCHANGED <<qgen_in, AgentVars, CertVars, PipeVars, FileVars, ingest_pc,
                   WebVars, GenVars, FontVars, WrapVars>>

QGenNext == GenerateQueries

SpecQGen == QGenInit /\ [][QGenNext]_vars

----------------------------------------------------------------------------
(* Claims about analyze_data, checked under SpecAgent                      *)

AgentDone == agent_pc = "done"

\* the cleaned reply does not decode
ReplyNotJson ==
    /\ llm_outcome.kind = "reply"
    /\ ~json_loads(clean_json_string(Content(llm_outcome))).ok

ListFields == {"business_overview", "product_portfolio", "applications",
               "investment_highlights"}

\* C2 (as stated): whenever the model call raises, whatever the error,
\* analyze_data returns None and not the placeholder record.
C2_RaiseReturnsNone ==
    (AgentDone /\ llm_outcome.kind = "raise") => agent_result = PyNone

\* C3 (as stated): a reply that is not valid JSON after cleanup yields the
\* placeholder record with every list field and financials empty and the
\* codename "Project Error".
C3_PlaceholderAllListsEmpty ==
    (AgentDone /\ ReplyNotJson) =>
        /\ agent_result.kind = "dict"
        /\ DOMAIN agent_result.data = DOMAIN PlaceholderRecord
        /\ \A f \in ListFields : agent_result.data[f] = JList(<<>>)
        /\ agent_result.data["financials"] = JObj(EmptyMap)
        /\ agent_result.data["company_codename"] = JStr(S_ProjectError)

\* C3 (amended): a reply that is not valid JSON after cleanup never yields
\* None; it yields the placeholder record, whose codename is "Project Error",
\* whose financials, product_portfolio, applications and
\* investment_highlights are empty, and whose business_overview holds the one
\* line "AI could not process data.".
C3_PlaceholderRecord ==
    (AgentDone /\ ReplyNotJson) =>
        /\ agent_result.kind = "dict"
        /\ DOMAIN agent_result.data = DOMAIN PlaceholderRecord
        /\ \A f \in ListFields \ {"business_overview"} :
               agent_result.data[f] = JList(<<>>)
        /\ agent_result.data["business_overview"] = JList(<<JStr(S_AICouldNot)>>)
        /\ agent_result.data["financials"] = JObj(EmptyMap)
        /\ agent_result.data["company_codename"] = JStr(S_ProjectError)

\* C3 witness: analyze_data has returned for a non-empty reply that does not
\* decode after its fences were removed.
C3_Witness ==
    /\ AgentDone
    /\ ReplyNotJson
    /\ llm_outcome.pre = FenceJson \o <<"\n">>
    /\ llm_outcome.body # <<>>
    /\ agent_result.kind = "dict"

\* the reply is a JSON object, bare or inside one pair of fence markers
WellFormedReply ==
    /\ llm_outcome.kind = "reply"
    /\ \/ llm_outcome.pre = <<>> /\ llm_outcome.suf = <<>>
       \/ /\ llm_outcome.pre \in {FenceJson \o <<"\n">>, Fence \o <<"\n">>}
          /\ llm_outcome.suf = <<"\n">> \o Fence
    /\ json_loads(llm_outcome.body).ok
    /\ json_loads(llm_outcome.body).value.t = "dict"

\* C4 (as stated): for a well-formed JSON reply, fenced or not, the returned
\* record has exactly the keys and values of the JSON of the reply.
C4_RecordEqualsReplyJson ==
    (AgentDone /\ WellFormedReply) =>
        agent_result = PyDict(json_loads(llm_outcome.body).value.v)

----------------------------------------------------------------------------
(* Claims about search_certifications, checked under SpecCert              *)

CertDone == cert_pc = "done"

\* catalog code i occurs in the raw text as a case-insensitive substring
CodeInData(i) == Contains(Lower(company_data), Lower(common_certs[i]))

NoCodeInData == \A i \in 1..Len(common_certs) : ~CodeInData(i)

\* C8: when the raw text holds at least one catalog code in any case, every
\* such code has an entry with verified = true and source "company_data",
\* and neither the query helper nor the text-search provider is called.
C8_LocalMatchSkipsWeb ==
    (CertDone /\ ~NoCodeInData) =>
        /\ \A i \in 1..Len(common_certs) :
               CodeInData(i) =>
                   \E k \in 1..Len(cert_result.certifications) :
                       /\ cert_result.certifications[k].name = common_certs[i]
                       /\ cert_result.certifications[k].verified = TRUE
                       /\ cert_result.certifications[k].source = "company_data"
        /\ cert_result.query_calls = <<>>
        /\ cert_result.tavily_calls = <<>>

\* C8 witness: the text "Iso 9001" (mixed case) was scanned and ISO 9001 was
\* reported from the company data.
C8_Witness ==
    /\ CertDone
    /\ company_data = <<"I","s","o"," ","9","0","0","1">>
    /\ Len(cert_result.certifications) = 1
    /\ cert_result.certifications[1].name = common_certs[1]
    /\ cert_result.certifications[1].verified

\* C9: when the raw text holds no catalog code, exactly one text-search call
\* is made before the function returns, whatever the query helper returned
\* and however it failed.
C9_OneSearchCall ==
    (CertDone /\ NoCodeInData) =>
        /\ ~cert_result.raised
        /\ cert_result.query_calls = <<"certifications">>
        /\ Len(cert_result.tavily_calls) = 1

----------------------------------------------------------------------------
(* Claims about run_pipeline, checked under Spec                           *)

IngestCalled == stage_calls # <<>>

FatalNoText == Msg("CRITICAL FAILURE: No text extracted")
FatalNoData == Msg("CRITICAL FAILURE: AI Agent failed to return data")

LastMessage == IF log = <<>> THEN Msg("") ELSE log[Len(log)]

\* C1: whenever the ingested corpus is empty or shorter than 50 characters,
\* the run stops before analyze_data is invoked: ingest_company_data is the
\* only stage that ran, the run has returned with the fatal message, the
\* extractor has no result, and no web enrichment or generation took place
\* (no file was written).
C1_ShortCorpusStops ==
    (IngestCalled /\ Len(raw_text) < MinCorpusLen) =>
        /\ pc = "returned"
        /\ stage_calls = <<"ingest_company_data">>
        /\ LastMessage = FatalNoText
        /\ agent_result = Unset
        /\ structured_data = Unset
        /\ saves = <<>>
        /\ out_files = out_files0

\* a folder that exists and holds a visible file, whose corpus is not empty
\* and shorter than 50 characters, has been ingested and the run has stopped
C1_Witness ==
    /\ IngestCalled
    /\ folder.exists
    /\ \E i \in 1..Len(folder.files) : ~StartsWith(folder.files[i].name, <<".">>)
    /\ raw_text # <<>>
    /\ Len(raw_text) < MinCorpusLen
    /\ pc = "returned"

ExtractorReturnedNone ==
    /\ Len(stage_calls) >= 2
    /\ stage_calls[2] = "analyze_data"
    /\ agent_result = PyNone

\* C5: when analyze_data returns None, the run ends with the fatal-failure
\* message as its last message: the run has returned, neither web enrichment
\* nor the generator was invoked, and the output files are those that were
\* there before the run.
C5_NoneEndsRun ==
    ExtractorReturnedNone =>
        /\ pc = "returned"
        /\ LastMessage = FatalNoData
        /\ stage_calls = <<"ingest_company_data", "analyze_data">>
        /\ saves = <<>>
        /\ out_files = out_files0

\* the model call raised a non-JSON error on a corpus long enough, and the
\* run stopped there although an old output file exists
C5_Witness ==
    /\ ExtractorReturnedNone
    /\ llm_outcome = Raises("OtherException")
    /\ Len(raw_text) >= MinCorpusLen
    /\ 0 \in DOMAIN out_files0
    /\ pc = "returned"

\* C6: for every input folder that does not exist, ingest_company_data
\* returns the error string, and run_pipeline stops with the fatal message
\* before analyze_data is invoked, whatever the length of the path.
C6_MissingFolderStops ==
    (IngestCalled /\ ~folder.exists) =>
        /\ raw_text = S_FolderNotFound \o input_dir
        /\ pc = "returned"
        /\ stage_calls = <<"ingest_company_data">>
        /\ LastMessage = FatalNoText

----------------------------------------------------------------------------
(* Claims about ingest_company_data, checked under SpecIngest              *)

IngestDone == ingest_pc = "done"

NoVisibleEntry ==
    /\ folder.exists
    /\ \A i \in 1..Len(folder.files) : StartsWith(folder.files[i].name, <<".">>)

\* C7: ingesting a directory without a visible (non-dot) entry yields the
\* "no files" signal, the same value whether the directory is empty or
\* holds only dotfiles.
C7_NoVisibleEntryYieldsSignal ==
    (IngestDone /\ NoVisibleEntry) => raw_text = S_NoFiles

----------------------------------------------------------------------------
(* Claims about the output path, checked under SpecSave                    *)

\* the suffix get_unique_output_path is to pick: the target path when it is
\* free, else the smallest free suffix from 1
SmallestFree(files) ==
    IF 0 \notin DOMAIN files THEN 0
    ELSE Min({k \in 1..MaxAttempts : k \notin DOMAIN files})

C10_Step ==
    saves' # saves =>
        LET p == saves'[Len(saves')] IN
        /\ saves' = Append(saves, p)
        /\ p \notin DOMAIN out_files
        /\ DOMAIN out_files' = DOMAIN out_files \cup {p}
        /\ out_files'[p] = Len(saves')
        /\ \A q \in DOMAIN out_files : out_files'[q] = out_files[q]
        /\ p = SmallestFree(out_files)
        /\ (DOMAIN out_files0 = {} => p = Len(saves))

\* C10: in any sequence of saves to one target path, every save writes a
\* file that did not exist before and leaves every existing file unchanged;
\* it uses the target path when that is free and the smallest free suffix
\* otherwise, so that from a start without files the first save uses the
\* target path, the second _1 and the third _2.
C10_SavesNeverOverwrite == [][C10_Step]_vars

\* three saves from a start without files: target path, _1, _2
C10_Witness ==
    /\ DOMAIN out_files0 = {}
    /\ saves = <<0, 1, 2>>
    /\ DOMAIN out_files = {0, 1, 2}

\* the target path and all suffixed names _1 .. _1000 exist
AllNamesTaken(files) == \A k \in 0..MaxAttempts : k \in DOMAIN files

\* a step that is one call of create_presentation
GenerationStep == last_gen'.n = last_gen.n + 1

C11_Step ==
    GenerationStep =>
        /\ AllNamesTaken(out_files) =>
              /\ last_gen'.raised
              /\ saves' = saves
              /\ out_files' = out_files
        /\ (~AllNamesTaken(out_files) /\ last_gen'.env.template = "ok") =>
              /\ ~last_gen'.raised
              /\ Len(saves') = Len(saves) + 1
              /\ saves'[Len(saves')] \in (0..MaxAttempts) \ DOMAIN out_files
        /\ \A k \in DOMAIN out_files :
              k \in DOMAIN out_files' /\ out_files'[k] = out_files[k]

\* C11: the name search covers the target path and the suffixes _1 to
\* _1000: a generation whose save succeeds writes a free one of these names
\* whenever one is free, and when all of them exist the search fails, so
\* that create_presentation raises, writes nothing and leaves every
\* existing file as it was.
C11_CapAtThousand == [][C11_Step]_vars

\* only _1000 was free: the first generation saved there, and the next one,
\* with a template and a fallback that would both save, raised
C11_Witness ==
    /\ 0 \in DOMAIN out_files0
    /\ MaxAttempts \notin DOMAIN out_files0
    /\ saves = <<MaxAttempts>>
    /\ AllNamesTaken(out_files)
    /\ last_gen.n = 2
    /\ last_gen.raised
    /\ last_gen.env = GenEnv("ok", "ok")

----------------------------------------------------------------------------
(* Claims about the web step of run_pipeline, checked under Spec           *)

WebCalled == Len(stage_calls) >= 3 /\ stage_calls[3] = "get_web_data_for_company"

WebRaised == \E i \in 1..Len(log) : log[i] = Msg("Web search error")

\* C12: when get_web_data_for_company raises, the record's web_data is the
\* all-empty WebData and the generator is still invoked: after the web step
\* the record always has a web_data field, and a run that went through the
\* web step returns only after create_presentation was called.
C12_WebFailureStillGenerates ==
    WebCalled =>
        /\ structured_data.kind = "dict"
        /\ "web_data" \in DOMAIN structured_data.data
        /\ WebRaised =>
              /\ structured_data.data["web_data"].images = <<>>
              /\ structured_data.data["web_data"].certifications = <<>>
              /\ DOMAIN structured_data.data["web_data"].business_info = {}
              /\ structured_data.data["web_data"].citations = <<>>
        /\ pc \in {"enriched", "returned"}
        /\ pc = "returned" =>
              stage_calls = <<"ingest_company_data", "analyze_data",
                              "get_web_data_for_company", "create_presentation">>

\* the web step raised, and the generator ran and saved a deck
C12_Witness ==
    /\ WebCalled
    /\ WebRaised
    /\ pc = "returned"
    /\ stage_calls[Len(stage_calls)] = "create_presentation"
    /\ saves # <<>>

----------------------------------------------------------------------------
(* Claims about create_presentation, checked under SpecSave                *)

FallbackTried ==
    last_gen.tried # <<>> /\ last_gen.tried[Len(last_gen.tried)] = "programmatic"

\* C13: create_presentation raises only when the template path and the
\* programmatic fallback have both failed: whenever it raised, the fallback
\* had been attempted, and whenever a path saved a deck it returned.
C13_RaisesOnlyIfBothFail ==
    last_gen.n > 0 =>
        /\ last_gen.raised => FallbackTried
        /\ (last_gen.env.template # "ok" /\ last_gen.env.template # "fill_raises")
              => FallbackTried

----------------------------------------------------------------------------
(* Claims about get_web_data_for_company, checked under SpecWeb            *)

WebDone == web_pc = "done"

\* get_web_data_for_company returned a WebData
WebReturned == WebDone /\ web_out.kind = "returned"

\* C14: the citations of the returned WebData are the image citations,
\* then the certification citations, then the business-info citations, each
\* list in its own order, nothing dropped or repeated; and the business-info
\* citations are those of the market entries followed by those of the
\* partner entries, one per entry.
C14_CitationsConcatenated ==
    WebReturned =>
        LET biz == web_out.business_info
            nm  == Len(biz.market_info)
        IN
        /\ web_out.web_data.citations =
              web_out.images.citations \o web_out.certifications.citations
              \o biz.citations
        /\ Len(biz.citations) = nm + Len(biz.partners)
        /\ \A i \in 1..Len(biz.citations) :
              IF i <= nm
              THEN /\ biz.citations[i].type = "market_info"
                   /\ biz.citations[i].url = biz.market_info[i].url
              ELSE /\ biz.citations[i].type = "partner"
                   /\ biz.citations[i].url = biz.partners[i - nm].url

\* all three searches contributed citations, market and partner ones among
\* them, and more image citations than the images that were kept
C14_Witness ==
    /\ WebReturned
    /\ Len(web_out.images.citations) > Len(web_out.images.images)
    /\ web_out.certifications.citations # <<>>
    /\ web_out.business_info.market_info # <<>>
    /\ web_out.business_info.partners # <<>>

\* C15: when the provider key is absent, no request is issued and every
\* text search returns an empty list: the certification fallback adds no
\* certification, the business-info search returns empty market, partner
\* and citation lists, and get_web_data_for_company returns without an
\* error.
C15_NoKeyDegradesToEmpty ==
    (WebDone /\ ~web_in.key) =>
        /\ web_out.posts = 0
        /\ web_out.kind = "returned"
        /\ \A i \in 1..Len(web_out.web_data.certifications) :
              web_out.web_data.certifications[i].source = "company_data"
        /\ web_out.certifications.tavily_calls # <<>> =>
              web_out.web_data.certifications = <<>>
        /\ web_out.web_data.business_info.market_info = <<>>
        /\ web_out.web_data.business_info.partners = <<>>
        /\ web_out.web_data.business_info.citations = <<>>

----------------------------------------------------------------------------
(* Claims about template generation, checked under SpecGen                 *)

GenDone == gen_pc = "done"

\* the template was loaded and its placeholders were filled without an error
TemplateFilled == GenDone /\ gen_out.filled.loaded /\ ~gen_out.filled.raised

\* the picture placeholders of the second slide that carry a picture
PicturesAt(deck) == {deck[2].pictures[j].at : j \in 1..Len(deck[2].pictures)}

\* C16: whenever create_presentation returns after a deck has been saved,
\* by the template path or by the programmatic fallback, the temporary
\* directory that staged the downloads of that generation has been removed
\* unless the removal itself failed, and a failed removal never makes the
\* generation fail.
C16_TempDirRemovedAfterSave ==
    /\ (GenDone /\ ~gen_out.raised /\ gen_out.filled.attempts # <<>>
           /\ gen_out.temp = TempExists)
         => (gen_out.removal /\ gen_in.rmtree = "fails")
    /\ (GenDone /\ gen_in.rmtree = "fails") => ~gen_out.raised

\* the slots of the fixed table: slide number (slide index + 1), placeholder
C17_TextTable ==
    {<<2, 10>>, <<2, 14>>, <<2, 15>>, <<2, 16>>,
     <<3, 11>>, <<3, 14>>, <<3, 15>>, <<4, 10>>}

\* C17: template generation changes only the slots of the fixed table: the
\* text placeholders 10, 14, 15, 16 and the picture placeholders 11, 12, 13
\* of slide index 1, placeholders 11, 14, 15 of slide index 2 and
\* placeholder 10 of slide index 3; slide index 0 and the chart placeholders
\* 10, 12, 13 of slide index 2 are as the template has them, for every
\* record.
C17_OnlyTableSlotsChange ==
    (GenDone /\ gen_out.filled.loaded) =>
        LET deck == gen_out.filled.deck
            slides == gen_in.template.slides
        IN  /\ Len(deck) = Len(slides)
            /\ \A s \in 1..Len(deck) :
                 /\ DOMAIN deck[s].ph = DOMAIN slides[s].ph
                 /\ \A i \in DOMAIN deck[s].ph :
                      /\ deck[s].ph[i].type = slides[s].ph[i].type
                      /\ <<s, i>> \notin C17_TextTable
                           => deck[s].ph[i] = slides[s].ph[i]
                 /\ s # 2 => deck[s].pictures = <<>>
                 /\ s = 2 => PicturesAt(deck) \subseteq {11, 12, 13}
            /\ Len(deck) >= 1 => deck[1] = slides[1]

\* a template of four slides was filled and saved: text went into slides
\* 2, 3 and 4 and a picture onto slide 2
C17_Witness ==
    /\ TemplateFilled
    /\ ~gen_out.raised /\ gen_out.tried = <<"template">>
    /\ Len(gen_out.filled.deck) = 4
    /\ gen_out.filled.deck[2].ph[10].content = TextOf("Business_Overview")
    /\ gen_out.filled.deck[3].ph[11].content = TextOf("Assumptions")
    /\ gen_out.filled.deck[4].ph[10].content = TextOf("Investment_Highlights")
    /\ PicturesAt(gen_out.filled.deck) = {11, 13}

\* the positions among the first three of a list whose entry has an image
\* address that starts with http
UsablePositions(entries) ==
    SelectSeq(<<1, 2, 3>>, LAMBDA i : i <= Len(entries) /\ HasHttpUrl(entries[i]))

\* C18: in template generation with a second slide, when the partners list
\* is empty and the general images list is not, up to 3 of the general
\* images are fetched for placeholders 11, 12, 13 by position; when the
\* partners list is not empty, its first 3 entries are, by position.
C18_GeneralImagesWhenNoPartners ==
    (TemplateFilled /\ Len(gen_out.filled.deck) >= 2
        /\ gen_in.web_data.partners.kind = "list") =>
        LET partners == gen_in.web_data.partners.v
            images == gen_in.web_data.images
        IN  /\ (partners = <<>> /\ images # <<>>) =>
                  gen_out.filled.attempts =
                      UsablePositions([i \in 1..Len(images) |-> FromImage(images[i])])
            /\ partners # <<>> =>
                  gen_out.filled.attempts = UsablePositions(partners)

\* C19: a failed download, a failed validation or a failure to fill one
\* placeholder leaves only that placeholder unfilled: every other position
\* is still fetched and placed (into a directory that exists), every other
\* text placeholder is still filled, the deck is saved by the template path when its save succeeds,
\* and create_presentation raises only when the saves themselves fail.
C19_FailureIsPerPlaceholder ==
    TemplateFilled =>
        LET deck == gen_out.filled.deck
            slides == gen_in.template.slides
            partners == CustomerPartners(gen_in.web_data.partners,
                                         gen_in.web_data.images)
        IN  /\ Len(deck) >= 2 =>
                 /\ gen_out.filled.attempts = UsablePositions(partners)
                 /\ \A k \in DOMAIN gen_in.outcomes :
                      (PicturePlaceholders[k] \in PicturesAt(deck))
                      <=> /\ gen_in.outcomes[k] = "ok"
                          /\ gen_in.temp # TempStale
                          /\ PicturePlaceholders[k] \in DOMAIN slides[2].ph
                          /\ slides[2].ph[PicturePlaceholders[k]].type = PICTURE
            /\ \A s \in 1..Len(deck) : \A i \in DOMAIN deck[s].ph :
                 (<<s, i>> \in C17_TextTable /\ slides[s].ph[i].type \in {BODY, OBJECT})
                 => (deck[s].ph[i].content = Untouched <=> <<s, i>> \in gen_in.failing)
            /\ gen_in.env.template = "ok" =>
                 ~gen_out.raised /\ gen_out.tried = <<"template">>
                                 /\ Len(gen_out.written) = 1
            /\ gen_out.raised => gen_in.env.programmatic = "save_fails"

\* the first picture could not be fetched, the second failed validation,
\* one text placeholder raised; the third picture was placed and the deck
\* was saved by the template path
C19_Witness ==
    /\ TemplateFilled
    /\ gen_in.temp = TempNone
    /\ DOMAIN gen_in.outcomes = {1, 2, 3}
    /\ gen_in.outcomes[1] = "http_error"
    /\ gen_in.outcomes[2] = "invalid_image"
    /\ gen_in.outcomes[3] = "ok"
    /\ gen_in.failing = {<<2, 14>>}
    /\ PicturesAt(gen_out.filled.deck) = {13}
    /\ gen_out.filled.deck[2].ph[15].content = TextOf("Applications")
    /\ ~gen_out.raised /\ gen_out.tried = <<"template">>

----------------------------------------------------------------------------
(* Claims about the font size, checked under SpecFont                      *)

FontDone == font_pc = "done"

\* whole characters per line at 12 per inch, whole lines at 2 per inch
C20_CharsPerLine == CHOOSE c \in 0..200 :
    c * EmuPerInch <= 12 * font_in.width /\ 12 * font_in.width < (c + 1) * EmuPerInch
C20_LinesAvailable == CHOOSE l \in 0..30 :
    l * EmuPerInch <= 2 * font_in.height /\ 2 * font_in.height < (l + 1) * EmuPerInch

\* the estimated lines are text_length / chars per line, at least 1: they
\* are at most 80% of the available lines
C20_Fits ==
    /\ C20_CharsPerLine > 0
    /\ 5 <= 4 * C20_LinesAvailable
    /\ 5 * font_in.text_length <= 4 * C20_LinesAvailable * C20_CharsPerLine

\* k is the whole part of 14 * (80% of the available lines) / estimated lines
C20_IsReduced(k) ==
    IF C20_CharsPerLine = 0 THEN k = 0
    ELSE IF font_in.text_length <= C20_CharsPerLine
    THEN /\ 5 * k <= 4 * FontMax * C20_LinesAvailable
         /\ 4 * FontMax * C20_LinesAvailable < 5 * (k + 1)
    ELSE /\ 5 * k * font_in.text_length
              <= 4 * FontMax * C20_LinesAvailable * C20_CharsPerLine
         /\ 4 * FontMax * C20_LinesAvailable * C20_CharsPerLine
              < 5 * (k + 1) * font_in.text_length

\* the size is the reduced size, raised to 8 when that is less
C20_IsReducedAndFloored(size) ==
    \/ size >= FontMin /\ C20_IsReduced(size)
    \/ size = FontMin /\ \E k \in 0..FontMin : C20_IsReduced(k)

\* 14 * (80% of the available lines) / estimated lines is the whole number k
C20_IsWhole(k) ==
    /\ C20_CharsPerLine > 0
    /\ IF font_in.text_length <= C20_CharsPerLine
       THEN 5 * k = 4 * FontMax * C20_LinesAvailable
       ELSE 5 * k * font_in.text_length
              = 4 * FontMax * C20_LinesAvailable * C20_CharsPerLine

\* the reduced size as floating point arithmetic gives it: the whole part,
\* or one less than a quotient that is a whole number
C20_IsReducedInFloat(k) == C20_IsReduced(k) \/ C20_IsWhole(k + 1)

C20_IsReducedInFloatAndFloored(size) ==
    \/ size >= FontMin /\ C20_IsReducedInFloat(size)
    \/ size = FontMin /\ \E k \in 0..FontMin : C20_IsReducedInFloat(k)

\* C20 as stated: for every text length, width and height the size is a
\* whole number from 8 to 14: 14 when the estimated lines are at most 80%
\* of the available lines, and otherwise the proportionally reduced size,
\* never below 8.
C20_Original ==
    FontDone =>
        /\ font_out.size \in FontMin..FontMax
        /\ C20_Fits => font_out.size = FontMax
        /\ ~C20_Fits => C20_IsReducedAndFloored(font_out.size)

\* C20, amended: the size is a whole number from 8 to 14. A placeholder
\* too narrow for one character per line or too low for one line gets the
\* default 12; any other gets 14 when the estimated lines are at most 80%
\* of the available lines, and otherwise the proportionally reduced size,
\* never below 8. The reduced size is the whole part of the quotient, or,
\* by the rounding of floating point division, one less than a quotient
\* that is a whole number.
C20_FontSize ==
    FontDone =>
        /\ font_out.size \in FontMin..FontMax
        /\ (C20_CharsPerLine = 0 \/ C20_LinesAvailable = 0)
             => font_out.size = DefaultFontSize
        /\ (C20_CharsPerLine > 0 /\ C20_LinesAvailable > 0) =>
             /\ C20_Fits => font_out.size = FontMax
             /\ ~C20_Fits => C20_IsReducedInFloatAndFloored(font_out.size)

\* the quotient of 280 characters at 13 per line on 25 lines is 13 and
\* the size is 12
C20_RoundedDown ==
    /\ FontDone
    /\ font_in = [text_length |-> 280, width |-> 990600, height |-> 11430000]
    /\ C20_IsWhole(13)
    /\ font_out.size = 12

\* a text that does not fit a placeholder of 4 by 3 inches got a size
\* strictly between the minimum and the maximum
C20_Witness ==
    /\ FontDone
    /\ font_in.width = 3657600 /\ font_in.height = 2743200
    /\ ~C20_Fits
    /\ font_out.size = 11

----------------------------------------------------------------------------
(* Claims about the lines of a text placeholder, checked under SpecWrap    *)

WrapDone == wrap_pc = "done"

HasNewline(s) == \E i \in 1..Len(s) : s[i] = "\n"
WithoutWhitespace(s) == SelectSeq(s, LAMBDA c : c \notin Whitespace)
SingleWord(line) == \A i \in 1..Len(line) : line[i] \notin Whitespace

\* the lines are the text cut at its newlines
RECURSIVE JoinNewline(_)
JoinNewline(lines) ==
    IF Len(lines) = 1 THEN lines[1]
    ELSE lines[1] \o <<"\n">> \o JoinNewline(Tail(lines))

C21_SplitAtNewlines ==
    /\ wrap_out.lines # <<>>
    /\ JoinNewline(wrap_out.lines) = wrap_in
    /\ \A k \in 1..Len(wrap_out.lines) : ~HasNewline(wrap_out.lines[k])

\* no line is longer than the budget unless it is one word
C21_WithinBudget ==
    \A k \in 1..Len(wrap_out.lines) :
        Len(wrap_out.lines[k]) <= MaxCharsPerLine \/ SingleWord(wrap_out.lines[k])

\* C21 as stated: a text without newline that is longer than the budget of
\* 80 characters is written as several lines, none longer than 80 unless
\* it is a single word longer than 80; a text with newlines is split
\* exactly at its newlines and not wrapped again.
C21_Original ==
    WrapDone =>
        /\ (~HasNewline(wrap_in) /\ Len(wrap_in) > MaxCharsPerLine) =>
              C21_WithinBudget
        /\ HasNewline(wrap_in) => C21_SplitAtNewlines

\* C21, amended: a text without newline that is longer than 200 characters
\* is put word by word on lines, none longer than 80 unless it is a single
\* word longer than 80; a text without newline of at most 200 characters
\* is one line, whatever its length; a text with newlines is split exactly
\* at its newlines and not wrapped again.
C21_Wrapping ==
    WrapDone =>
        /\ (~HasNewline(wrap_in) /\ Len(wrap_in) > WrapThreshold) =>
              /\ C21_WithinBudget
              /\ WithoutWhitespace(Flatten(wrap_out.lines)) = WithoutWhitespace(wrap_in)
              /\ \A k \in 1..Len(wrap_out.lines) : wrap_out.lines[k] # <<>>
        /\ (~HasNewline(wrap_in) /\ Len(wrap_in) <= WrapThreshold) =>
              wrap_out.lines = <<wrap_in>>
        /\ HasNewline(wrap_in) => C21_SplitAtNewlines

\* a text of more than 200 characters was put on three lines or more, one
\* of exactly 80 characters and one a single word of 81
C21_Witness ==
    /\ WrapDone
    /\ ~HasNewline(wrap_in) /\ Len(wrap_in) > WrapThreshold
    /\ Len(wrap_out.lines) >= 3
    /\ \E k \in 1..Len(wrap_out.lines) :
          Len(wrap_out.lines[k]) = MaxCharsPerLine /\ ~SingleWord(wrap_out.lines[k])
    /\ \E k \in 1..Len(wrap_out.lines) : Len(wrap_out.lines[k]) > MaxCharsPerLine

----------------------------------------------------------------------------
(* Claims about generate_search_queries, checked under SpecQGen            *)

QGenDone == qgen_pc = "done"

\* the value the cleaned reply decodes to
C22_Parsed == json_loads(clean_json_string(Content(qgen_in.o)))

\* the model call raised, the cleaned reply is not valid JSON, or the value
\* is not a non-empty array
C22_Failed ==
    \/ qgen_in.o.kind = "raise"
    \/ ~C22_Parsed.ok
    \/ C22_Parsed.value.t # "list"
    \/ C22_Parsed.value.v = <<>>

\* C22: generate_search_queries returns exactly the fixed fallback list of
\* the requested category whenever the model call raises, the cleaned reply
\* is not valid JSON, or the parsed value is not a non-empty array;
\* otherwise it returns the first at most 5 elements of the parsed array;
\* the returned list is never empty.
C22_QueriesOrFallback ==
    QGenDone =>
        /\ C22_Failed =>
              qgen_out.queries = generate_fallback_queries(qgen_in.search_type)
        /\ ~C22_Failed =>
              /\ Len(qgen_out.queries) <= MaxQueries
              /\ Len(qgen_out.queries) = Len(C22_Parsed.value.v)
                 \/ (Len(qgen_out.queries) = MaxQueries
                     /\ Len(C22_Parsed.value.v) > MaxQueries)
              /\ \A i \in 1..Len(qgen_out.queries) :
                    qgen_out.queries[i] = C22_Parsed.value.v[i].v
        /\ qgen_out.queries # <<>>

\* an array of 7 queries inside a code fence was cut to its first 5
C22_Witness ==
    /\ QGenDone
    /\ ~C22_Failed
    /\ Len(C22_Parsed.value.v) = 7
    /\ qgen_out.queries = <<Q3, Q2, Q1, Q3, Q2>>

----------------------------------------------------------------------------
(* Claims about search_images, checked under SpecWeb                       *)

\* the request of query i, or the handling of its answer, failed
C23_QueryFailed(i) ==
    \/ web_in.unsplash[i].http # "ok"
    \/ \E k \in 1..Len(web_in.unsplash[i].photos) : ~web_in.unsplash[i].photos[k].ok

\* the urls of the photos answered to the queries that did not fail
C23_UrlsOfGoodQueries ==
    Flatten([i \in 1..Len(web_out.images.requests) |->
                IF C23_QueryFailed(i) THEN <<>>
                ELSE [k \in 1..Len(web_in.unsplash[i].photos) |->
                         web_in.unsplash[i].photos[k].url]])

\* C23: search_images issues at most 2 provider calls, for the first 2
\* generated queries; a query whose provider call or response handling
\* fails contributes no image and no citation, and the next query is still
\* issued.
C23_FailedQueryContributesNothing ==
    WebDone =>
        /\ Len(web_out.images.requests) <= ImageQueries
        /\ web_out.images.requests =
              Take(generate_search_queries(web_in.o_images, "images").queries, ImageQueries)
        /\ [k \in 1..Len(web_out.images.citations) |->
               web_out.images.citations[k].url] = C23_UrlsOfGoodQueries
        /\ \A k \in 1..Len(web_out.images.images) :
              \E j \in 1..Len(C23_UrlsOfGoodQueries) :
                 web_out.images.images[k].url = C23_UrlsOfGoodQueries[j]

\* C24: the image list and the citation list returned by search_images are
\* parallel, of the same length, the i-th citation carrying the url of the
\* i-th image; the image list holds at most 2 x max_results entries.
C24_ImagesAndCitationsParallel ==
    WebDone =>
        /\ Len(web_out.images.images) <= 2 * ImageMaxResults
        /\ Len(web_out.images.citations) = Len(web_out.images.images)
        /\ \A i \in 1..Len(web_out.images.images) :
              web_out.images.citations[i].url = web_out.images.images[i].url

----------------------------------------------------------------------------
(* Claims about search_business_info, checked under SpecWeb                *)

\* the results search_text_tavily returned to the market and partner searches
C25_MarketResults == search_text_tavily(Provider(web_in.key, web_in.market))
C25_PartnerResults == search_text_tavily(Provider(web_in.key, web_in.partners))

\* C25: search_business_info issues exactly one text search for the
\* business_info category and exactly one for the partners category, each
\* with the first generated query of its list, whatever the first search
\* returned; each stored snippet is the first 300 characters of the body of
\* its result.
C25_OneSearchPerCategory ==
    (WebDone /\ web_out.business_info.called) =>
        LET biz == web_out.business_info IN
        /\ ~biz.raised
        /\ biz.tavily_queries =
              <<[type |-> "business_info",
                 query |-> generate_search_queries(web_in.o_text, "business_info").queries[1]],
                [type |-> "partners",
                 query |-> generate_search_queries(web_in.o_text, "partners").queries[1]]>>
        /\ \A i \in 1..Len(biz.market_info) :
              biz.market_info[i].snippet = Take(C25_MarketResults[i].body, SnippetLen)
        /\ \A i \in 1..Len(biz.partners) :
              biz.partners[i].snippet = Take(C25_PartnerResults[i].body, SnippetLen)

----------------------------------------------------------------------------
(* Claims about a failing file, checked under SpecIngest                   *)

\* the corpus in which a file that failed left nothing and every other file
\* left its whole section
C26_SectionsOfReadableFiles ==
    Flatten([i \in 1..Len(folder.files) |->
                IF folder.files[i].fail_at # 0 THEN <<>>
                ELSE FileSection(folder.files[i])])

\* C26: a failure while reading one file never stops the scan: the failing
\* file contributes nothing to the corpus (no header, no partial content,
\* also for a workbook whose later sheet fails) and the section of every
\* other readable file is present.
C26_FailingFileContributesNothing ==
    (IngestDone /\ folder.exists /\ folder.files # <<>>) =>
        raw_text = C26_SectionsOfReadableFiles

----------------------------------------------------------------------------
(* Claims about the calls of one process, checked under SpecProcess       *)

\* the positions for which the last call was about to write a downloaded
\* file: the request was answered (line 108)
C27_Writes ==
    {k \in DOMAIN gen_in.outcomes :
        /\ \E j \in 1..Len(gen_out.filled.attempts) : gen_out.filled.attempts[j] = k
        /\ gen_in.outcomes[k] # "http_error"}

\* C27: in any sequence of create_presentation calls of one process,
\* whenever download_image_to_temp is about to write a downloaded file the
\* directory named by TEMP_IMAGE_DIR exists: after a generation removed the
\* directory, the first download of the next generation makes one again.
C27_DirectoryExistsAtWrite ==
    (GenDone /\ C27_Writes # {}) => gen_out.filled.temp = TempExists

----------------------------------------------------------------------------
(* Claims about the end of run_pipeline, checked under Spec                *)

\* the completion messages of the run
C28_Reported ==
    {i \in 1..Len(log) : log[i].msg = "PIPELINE COMPLETE. Output file"}

\* C28: whenever run_pipeline reports completion, the output path it
\* reports is the path of the file the generator wrote in that run, also
\* when the target path existed and a suffixed name was used.
C28_ReportedPathIsWrittenFile ==
    \A i \in C28_Reported :
        /\ saves # <<>>
        /\ log[i].suffix = saves[Len(saves)]

\* analyze_data was the last stage the run invoked, and the run has returned
C29_AbortedAfterExtractor ==
    /\ pc = "returned"
    /\ stage_calls = <<"ingest_company_data", "analyze_data">>

\* C29: run_pipeline aborts after the Extractor only when the Extractor
\* returned null: every other value analyze_data returns for a model reply
\* that is valid JSON, the empty object included, lets the run go on to web
\* enrichment and generation.
C29_AbortsOnlyOnNone ==
    C29_AbortedAfterExtractor => agent_result = PyNone

----------------------------------------------------------------------------
(* Claims about the lists of search_certifications, checked under SpecCert *)

\* C30: the lists search_certifications returns are homogeneous and free of
\* duplicates: either every entry is verified with source "company_data" or
\* every entry is unverified; no certification name occurs twice; and the
\* citation list has the length of the certification list, with the same
\* name at each position.
C30_HomogeneousAndDistinct ==
    CertDone =>
        LET certs == cert_result.certifications
            cites == cert_result.citations
        IN
        /\ \/ \A i \in 1..Len(certs) :
                 certs[i].verified /\ certs[i].source = "company_data"
           \/ \A i \in 1..Len(certs) : ~certs[i].verified
        /\ \A i, j \in 1..Len(certs) : i # j => certs[i].name # certs[j].name
        /\ Len(cites) = Len(certs)
        /\ \A i \in 1..Len(certs) : cites[i].name = certs[i].name

\* two results of the web search gave two unverified certifications, the
\* second result naming the code of the first again
C30_Witness ==
    /\ CertDone
    /\ Len(cert_result.certifications) = 2
    /\ ~cert_result.certifications[1].verified
    /\ cert_result.certifications[1].name = common_certs[6]
    /\ Contains(Lower(tavily_env.items[2].content), Lower(common_certs[6]))

====
